---------------------------- MODULE Spec2Model ----------------------------
(***************************************************************************)
(* State-machine model of src/app/EmailEncryption.tsx: the EmailEncryption *)
(* root component (session, dark mode, startup load, router) and its       *)
(* screens (LandingPage, Login, Register, SecuritySetup, Dashboard,        *)
(* Compose, ViewEmail, Settings).                                          *)
(*                                                                         *)
(* Conventions.  A JavaScript string that the code inspects (trim, regex,  *)
(* toLowerCase, split) is a sequence of one-character strings; opaque      *)
(* constants (ids, toast texts, routes) are TLA+ strings.  null/undefined  *)
(* is the record Null.  A React component's state is one record variable   *)
(* whose fields carry the names of its useState hooks.  A setTimeout       *)
(* callback is an entry of `timers`; it captures the values of the render  *)
(* that scheduled it.  `toasted` is the list of toasts raised by the step  *)
(* just taken.                                                             *)
(***************************************************************************)
EXTENDS Integers, Sequences, FiniteSets, TLC

VARIABLES
    app,            \* EmailEncryption: isLoggedIn, currentUser, darkMode, loading, effects
    localStorage,   \* window.localStorage: items "user" and "darkMode"
    bodyDark,       \* document.body.classList.contains("dark")
    route,          \* HashRouter location: [path, id]
    landing,        \* LandingPage state
    login,          \* Login state
    register,       \* Register state
    security,       \* SecuritySetup state
    dash,           \* Dashboard state
    compose,        \* Compose state (modal of Dashboard, or the /compose route)
    view,           \* ViewEmail state
    settings,       \* Settings state
    timers,         \* pending setTimeout callbacks, in scheduling order
    toasted,        \* toasts raised by the last step
    atLoad          \* history: the "darkMode" item of localStorage when the page was loaded

vars == <<app, localStorage, bodyDark, route, landing, login, register, security,
          dash, compose, view, settings, timers, toasted, atLoad>>

-----------------------------------------------------------------------------
(* Bounds *)

\* At most this many setTimeout callbacks are pending at once.
MaxTimers == 2

\* Mock emails fetched by the Dashboard (of the ten of the source)
NumEmails == 2
MaxAttachments == 2

\* Recipients added to one email
MaxRecipients == 1

\* Keys generated in SecuritySetup
MaxKeys == 2

-----------------------------------------------------------------------------
(* JavaScript values and string functions *)

Null == [null |-> TRUE]

Upper == <<"A","B","C","D","E","F","G","H","I","J","K","L","M",
           "N","O","P","Q","R","S","T","U","V","W","X","Y","Z">>
Lower == <<"a","b","c","d","e","f","g","h","i","j","k","l","m",
           "n","o","p","q","r","s","t","u","v","w","x","y","z">>
Digits == {"0","1","2","3","4","5","6","7","8","9"}

IsUpper(c) == \E i \in 1..26 : Upper[i] = c
IsLower(c) == \E i \in 1..26 : Lower[i] = c
IsDigit(c) == c \in Digits
IsSpace(c) == c = " "

\* String.prototype.toLowerCase
ToLowerChar(c) == IF IsUpper(c) THEN Lower[CHOOSE i \in 1..26 : Upper[i] = c] ELSE c
toLowerCase(s) == [i \in 1..Len(s) |-> ToLowerChar(s[i])]

\* String.prototype.trim
RECURSIVE TrimLeft(_)
TrimLeft(s) == IF s # <<>> /\ IsSpace(Head(s)) THEN TrimLeft(Tail(s)) ELSE s
RECURSIVE TrimRight(_)
TrimRight(s) ==
    IF s # <<>> /\ IsSpace(s[Len(s)]) THEN TrimRight(SubSeq(s, 1, Len(s) - 1)) ELSE s
trim(s) == TrimRight(TrimLeft(s))

\* JavaScript truthiness of a string
Truthy(s) == s # <<>>

\* s.split(sep)[0]: the part before the first sep, or all of s
RECURSIVE SplitFirst(_, _)
SplitFirst(s, sep) ==
    IF s = <<>> \/ Head(s) = sep THEN <<>>
    ELSE <<Head(s)>> \o SplitFirst(Tail(s), sep)

\* s.replace(a, b) with a string pattern: the first occurrence only
RECURSIVE ReplaceFirst(_, _, _)
ReplaceFirst(s, a, b) ==
    IF s = <<>> THEN <<>>
    ELSE IF Head(s) = a THEN <<b>> \o Tail(s)
    ELSE <<Head(s)>> \o ReplaceFirst(Tail(s), a, b)

\* encodeURIComponent, on letters and spaces
RECURSIVE encodeURIComponent(_)
encodeURIComponent(s) ==
    IF s = <<>> THEN <<>>
    ELSE (IF IsSpace(Head(s)) THEN <<"%", "2", "0">> ELSE <<Head(s)>>)
         \o encodeURIComponent(Tail(s))

\* Boolean.prototype.toString
BoolToString(b) == IF b THEN "true" ELSE "false"

RemoveAt(s, i) == SubSeq(s, 1, i - 1) \o SubSeq(s, i + 1, Len(s))

-----------------------------------------------------------------------------
(* localStorage items and JSON *)

Absent == [present |-> FALSE]
Item(v) == [present |-> TRUE, value |-> v]

\* new Date(): the instant itself is not modelled
NewDate == [type |-> "Date", value |-> "now"]
\* Date.prototype.toJSON: a Date is serialised as its ISO string
DateToJSON(d) == IF d.type = "Date" THEN [type |-> "string", value |-> d.value] ELSE d

KeyToJSON(k) == [k EXCEPT !.createdAt = DateToJSON(k.createdAt)]

\* JSON.stringify of a User (or of null): a JSON text
JSONstringify(u) ==
    IF u = Null THEN [kind |-> "null"]
    ELSE [kind |-> "object",
          value |-> [u EXCEPT !.encryptionKeys =
                        [i \in 1..Len(u.encryptionKeys) |-> KeyToJSON(u.encryptionKeys[i])]]]

\* JSON.parse: throws a SyntaxError on a text that is not JSON
JSONparseThrows(text) == text.kind = "invalid"
JSONparse(text) == IF text.kind = "object" THEN text.value ELSE Null

\* `if (user)` on the result of getItem: null and "" are falsy
ItemTruthy(item) == item.present /\ item.value.kind # "empty"

-----------------------------------------------------------------------------
(* Toasts *)

Toast(kind, msg) == [kind |-> kind, msg |-> msg]

-----------------------------------------------------------------------------
(* User objects built by the login flows *)

DefaultKey(publicKey, privateKey) ==
    [id |-> "default-key", name |-> "Default Key", publicKey |-> publicKey,
     privateKey |-> privateKey, fingerprint |-> "AB:CD:EF:12:34:56",
     createdAt |-> NewDate, isActive |-> TRUE]

AvatarUrl(name) == [base |-> "https://ui-avatars.com/api/?name=", name |-> name]

S_DemoUser == <<"D","e","m","o"," ","U","s","e","r">>
S_DemoEmail == <<"d","e","m","o","@","e","x","a","m","p","l","e",".","c","o","m">>
S_DemoGmail == <<"d","e","m","o","@","g","m","a","i","l",".","c","o","m">>
S_DemoPassword == <<"d","e","m","o","-","p","a","s","s","w","o","r","d">>

\* LandingPage.handleDemoLogin's demoUser
LandingDemoUser ==
    [id |-> "demo-user", name |-> S_DemoUser, email |-> S_DemoEmail,
     password |-> S_DemoPassword, twoFactorEnabled |-> FALSE,
     encryptionKeys |-> <<DefaultKey("demo-public-key", "demo-private-key")>>,
     connectedAccounts |-> <<[id |-> "gmail-account", provider |-> "gmail",
                              email |-> S_DemoGmail, connected |-> TRUE]>>,
     profileImage |-> AvatarUrl(ReplaceFirst(S_DemoUser, " ", "+"))]

\* Login.handleSubmit's user
LoginUser(email, password) ==
    [id |-> "demo-user", name |-> SplitFirst(email, "@"), email |-> email,
     password |-> password, twoFactorEnabled |-> FALSE,
     encryptionKeys |-> <<DefaultKey("demo-public-key", "demo-private-key")>>,
     connectedAccounts |-> <<[id |-> "gmail-account", provider |-> "gmail",
                              email |-> email, connected |-> TRUE]>>,
     profileImage |-> AvatarUrl(SplitFirst(email, "@"))]

S_SocialGmail == <<"d","e","m","o",".","u","s","e","r","@","g","m","a","i","l",".","c","o","m">>
S_SocialFacebook ==
    <<"d","e","m","o",".","u","s","e","r","@","f","a","c","e","b","o","o","k",".","c","o","m">>

\* Login.createDemoUser
createDemoUser(provider, email, name) ==
    [id |-> provider, name |-> name, email |-> email, password |-> <<>>,
     twoFactorEnabled |-> FALSE,
     encryptionKeys |-> <<DefaultKey("demo-public-key", "demo-private-key")>>,
     connectedAccounts |-> <<[id |-> provider, provider |-> provider,
                              email |-> email, connected |-> TRUE]>>,
     profileImage |-> AvatarUrl(encodeURIComponent(name))]

\* Login.handleSocialLogin's demoUsers[provider]
SocialUser(provider) ==
    createDemoUser(provider,
                   IF provider = "google" THEN S_SocialGmail ELSE S_SocialFacebook,
                   S_DemoUser)

\* Register.handleSubmit's user
RegisterUser(formData) ==
    [id |-> "user-now", name |-> formData.name, email |-> formData.email,
     password |-> formData.password, twoFactorEnabled |-> FALSE,
     encryptionKeys |-> <<DefaultKey("generated-public-key", "generated-private-key")>>,
     connectedAccounts |-> <<>>,
     profileImage |-> AvatarUrl(ReplaceFirst(formData.name, " ", "+"))]


-----------------------------------------------------------------------------
(* Router: which screen component a location renders *)

Paths == {"/", "/login", "/register", "/security-setup", "/dashboard",
          "/compose", "/view-email", "/settings"}

Route(path, id) == [path |-> path, id |-> id]

\* <Routes>: the element rendered for a path.  While `loading` the loading
\* screen is returned and no Router exists.
ScreenAt(a, r) ==
    IF a.loading THEN "none"
    ELSE CASE r.path = "/" -> IF a.isLoggedIn THEN "Dashboard" ELSE "LandingPage"
           [] r.path = "/login" -> "Login"
           [] r.path = "/register" -> "Register"
           [] r.path = "/security-setup" -> "SecuritySetup"
           [] r.path = "/dashboard" -> "Dashboard"
           [] r.path = "/compose" -> "Compose"
           [] r.path = "/view-email" -> "ViewEmail"
           [] r.path = "/settings" -> "Settings"

Screen == ScreenAt(app, route)

-----------------------------------------------------------------------------
(* Initial component states: the useState initialisers *)

AppInit ==
    [isLoggedIn |-> FALSE, currentUser |-> Null, darkMode |-> FALSE,
     loading |-> TRUE, effects |-> "mount",
     logoutConfirm |-> FALSE]   \* the Dashboard's logout confirmation toast is shown

LandingInit == [menuOpen |-> FALSE]

LoginInit ==
    [email |-> <<>>, password |-> <<>>, error |-> "", isLoading |-> FALSE,
     showSocialModal |-> FALSE, selectedProvider |-> "null", socialStep |-> 0]

NoErrors == [f \in {} |-> ""]

RegisterInit ==
    [step |-> 1,
     formData |-> [name |-> <<>>, email |-> <<>>, password |-> <<>>,
                   confirmPassword |-> <<>>, agreeToTerms |-> FALSE],
     errors |-> NoErrors, isLoading |-> FALSE]

\* Key ids: the default key is "default", a generated key `key_${Date.now()}`;
\* the model numbers them 0 (default), 1, 2, ... in order of generation
SecurityDefaultKey ==
    [id |-> 0, name |-> "Default Encryption Key", fingerprint |-> "AB:CD:EF:12:34:56",
     isActive |-> TRUE]

SecurityInit ==
    [step |-> 1, isLoading |-> FALSE, twoFactorEnabled |-> FALSE,
     generatingKeys |-> FALSE, keyGenerated |-> FALSE, activeKeyId |-> 0,
     keys |-> <<SecurityDefaultKey>>, showConfirmDialog |-> FALSE,
     pendingKeyAction |-> Null]

DashInit ==
    [activeTab |-> "inbox", emails |-> <<>>, searchTerm |-> <<>>,
     showComposeModal |-> FALSE, showUserMenu |-> FALSE, selectedEmails |-> <<>>,
     isSelectAll |-> FALSE, isRefreshing |-> FALSE]

ComposeInit ==
    [recipient |-> <<>>, subject |-> <<>>, message |-> <<>>, recipients |-> <<>>,
     attachments |-> 0, passwordProtected |-> FALSE, password |-> <<>>,
     isSending |-> FALSE, formTouched |-> FALSE, draftSaving |-> FALSE,
     draftSaved |-> FALSE, isDraft |-> FALSE, draftId |-> "null",
     showAddKeyModal |-> FALSE, newKeyName |-> <<>>, isGeneratingKey |-> FALSE,
     encryptionKeys |-> 2, selectedEncryptionKey |-> "default-key",
     keydown |-> [formTouched |-> FALSE, hadDraftId |-> FALSE]]

ViewInit ==
    [email |-> Null, isDecrypted |-> FALSE, password |-> <<>>,
     showPasswordModal |-> FALSE, isLoadingEmail |-> TRUE,
     showEncryptedContent |-> FALSE, isDownloading |-> FALSE,
     showReplyBox |-> FALSE, replyMessage |-> <<>>, showForwardBox |-> FALSE,
     forwardRecipient |-> <<>>, forwardMessage |-> "empty"]

\* Settings reads user?.name and user?.email in its useState initialisers
SettingsInit(user) ==
    [profileName |-> IF user = Null THEN <<>> ELSE user.name,
     profileEmail |-> IF user = Null THEN <<>> ELSE user.email,
     showAddKeyModal |-> FALSE, showAddAccountModal |-> FALSE, isSaving |-> FALSE,
     isGeneratingKey |-> FALSE, keyName |-> <<>>]

Locals ==
    [landing |-> landing, login |-> login, register |-> register,
     security |-> security, dash |-> dash, compose |-> compose, view |-> view,
     settings |-> settings]

-----------------------------------------------------------------------------
(* Timers: window.setTimeout *)

Timer(owner, kind, delay, data) ==
    [owner |-> owner, kind |-> kind, delay |-> delay, alive |-> TRUE,
     onClose |-> "none", data |-> data]

\* The browser runs timers in deadline order: a timer scheduled no later and
\* with no longer a delay than another runs first.
CanFire(i) == \A j \in 1..(i - 1) : timers[j].delay > timers[i].delay

\* The one timer with a clearTimeout: the auto-save effect's cleanup clears it
\* when the effect runs again and when Compose unmounts.
ClearedOnUnmount == {"autosave"}

OwnersOf(screen) == IF screen = "Dashboard" THEN {"Dashboard", "Compose"} ELSE {screen}

IsLive(t, owners) == ~(t.owner \in owners /\ t.kind \in ClearedOnUnmount)

\* An unmount that clears every pending timer of the component
UnmountClearingAll(ts, screen) ==
    SelectSeq(ts, LAMBDA t : t.owner \notin OwnersOf(screen))

\* Unmounting a screen cancels nothing but the auto-save timer: the other
\* callbacks still run, but their setState calls address a component instance
\* that is gone (alive = FALSE).
Unmount(ts, screen) ==
    LET owners == OwnersOf(screen)
        kept == SelectSeq(ts, LAMBDA t : IsLive(t, owners))
    IN [i \in 1..Len(kept) |->
          IF kept[i].owner \in owners
          THEN [kept[i] EXCEPT !.alive = FALSE,
                               !.onClose = IF @ = "dash" THEN "dead" ELSE @]
          ELSE kept[i]]

\* The pending callbacks that MaxTimers bounds.  The four step callbacks of a
\* social login are scheduled together with its completion callback, which
\* is the one counted.
Counted(ts) == SelectSeq(ts, LAMBDA t : t.kind # "socialStep")

\* The mount (and dependency-change) effect of a screen that fetches mock data
FetchTimer(screen, user) ==
    IF screen = "Dashboard" THEN Timer("Dashboard", "dashFetch", 1000, [user |-> user])
    ELSE Timer("ViewEmail", "viewFetch", 1000, [user |-> user])

\* The window keydown listener of Compose is installed by an effect with the
\* dependencies [onClose, recipient, subject, message, isMinimized]: its
\* handleSaveAsDraft is the one of the render that ran the effect last, with
\* that render's formTouched and draftId.
KeydownClosure(c) == [formTouched |-> c.formTouched, hadDraftId |-> c.draftId # "null"]

-----------------------------------------------------------------------------
(* One React commit: the state after a handler has run.  newApp, newRoute and
   loc are what the handler asked for; the commit unmounts the screen that is
   no longer rendered, mounts the new one with its initial state, and runs the
   effects whose dependencies changed.  userChanged: setCurrentUser was called
   with a new object. *)

Commit(newApp, newStorage, newRoute, loc, ts, userChanged, toasts) ==
    LET old == ScreenAt(app, route)
        new == ScreenAt(newApp, newRoute)
        same == old = new
        ts1 == IF same THEN ts ELSE Unmount(ts, old)
        idChanged == new = "ViewEmail" /\ newRoute.id # route.id
        rerun == same /\ (userChanged \/ idChanged)
        fetch == new \in {"Dashboard", "ViewEmail"} /\ (~same \/ rerun)
        ts2 == IF fetch THEN Append(ts1, FetchTimer(new, newApp.currentUser)) ELSE ts1
        dashNew == IF new # "Dashboard" THEN DashInit
                   ELSE IF ~same THEN [DashInit EXCEPT !.isRefreshing = TRUE]
                   ELSE IF rerun THEN [loc.dash EXCEPT !.isRefreshing = TRUE]
                   ELSE loc.dash
    IN /\ Len(Counted(ts2)) <= MaxTimers \/ Len(ts) < Len(timers)
       /\ app' = [newApp EXCEPT !.effects =
                     IF newApp.darkMode # app.darkMode THEN "darkMode" ELSE @]
       /\ localStorage' = newStorage
       /\ route' = newRoute
       /\ landing' = IF new = "LandingPage" /\ same THEN loc.landing ELSE LandingInit
       /\ login' = IF new = "Login" /\ same THEN loc.login ELSE LoginInit
       /\ register' = IF new = "Register" /\ same THEN loc.register ELSE RegisterInit
       /\ security' = IF new = "SecuritySetup" /\ same THEN loc.security ELSE SecurityInit
       /\ dash' = dashNew
       /\ compose' = IF same /\ (new = "Compose" \/ (new = "Dashboard" /\ dashNew.showComposeModal))
                     THEN IF new = "Dashboard" /\ (dashNew # dash \/ newApp # app)
                          THEN [loc.compose EXCEPT !.keydown = KeydownClosure(loc.compose)]
                          ELSE loc.compose
                     ELSE ComposeInit
       /\ view' = IF new = "ViewEmail" /\ same THEN loc.view ELSE ViewInit
       /\ settings' = IF new = "Settings"
                      THEN (IF same THEN loc.settings ELSE SettingsInit(newApp.currentUser))
                      ELSE SettingsInit(Null)
       /\ timers' = ts2
       /\ toasted' = toasts
       /\ UNCHANGED <<bodyDark, atLoad>>

\* A handler that changes only its own component's state and the timers
Local(loc, ts, toasts) == Commit(app, localStorage, route, loc, ts, FALSE, toasts)

\* No passive effect is pending: React flushes effects before the next event
Idle == app.effects = "none"

-----------------------------------------------------------------------------
(* EmailEncryption (root component) *)

\* handleLogin(user)
handleLogin(a, user) == [a EXCEPT !.currentUser = user, !.isLoggedIn = TRUE]
handleLoginStorage(ls, user) == [ls EXCEPT !.user = Item(JSONstringify(user))]
handleLoginToast == Toast("success", "Welcome back, ${user.name}!")

\* A logout that forgets localStorage.removeItem("user")
handleLogoutStorageKept(ls) == ls

\* A logout that keeps the user object
handleLogoutKeepingUser(a) == [a EXCEPT !.isLoggedIn = FALSE]

\* handleLogout()
handleLogout(a) == [a EXCEPT !.currentUser = Null, !.isLoggedIn = FALSE]
handleLogoutStorage(ls) == [ls EXCEPT !.user = Absent]
handleLogoutToast == Toast("success", "You've been securely logged out.")

\* An effect that stores the value before the toggle
DarkModeStorageStale(ls, darkMode) == [ls EXCEPT !.darkMode = Item(BoolToString(~darkMode))]

\* The darkMode effect body: body class and localStorage.setItem("darkMode", ...)
DarkModeStorage(ls, darkMode) == [ls EXCEPT !.darkMode = Item(BoolToString(darkMode))]

\* Both mount effects, in order: the startup effect schedules the 800 ms load,
\* the darkMode effect runs with the initial darkMode.
MountEffects ==
    /\ app.effects = "mount"
    /\ app' = [app EXCEPT !.effects = "none"]
    /\ timers' = Append(timers, Timer("App", "startup", 800, Null))
    /\ bodyDark' = app.darkMode
    /\ localStorage' = DarkModeStorage(localStorage, app.darkMode)
    /\ toasted' = <<>>
    /\ UNCHANGED <<route, landing, login, register, security, dash, compose, view,
                   settings, atLoad>>

\* The darkMode effect after a render in which darkMode changed
DarkModeEffect ==
    /\ app.effects = "darkMode"
    /\ app' = [app EXCEPT !.effects = "none"]
    /\ bodyDark' = app.darkMode
    /\ localStorage' = DarkModeStorage(localStorage, app.darkMode)
    /\ toasted' = <<>>
    /\ UNCHANGED <<route, landing, login, register, security, dash, compose, view,
                   settings, timers, atLoad>>

\* What the startup callback leaves in the root component's state
StartupLoad(a, ls) ==
    LET user == ls.user
        savedDarkMode == ls.darkMode = Item("true")
        a1 == IF ItemTruthy(user)
              THEN [a EXCEPT !.currentUser = JSONparse(user.value), !.isLoggedIn = TRUE]
              ELSE a
    IN IF ItemTruthy(user) /\ JSONparseThrows(user.value)
       THEN a    \* JSON.parse threw: the rest of the callback never runs
       ELSE [a1 EXCEPT !.darkMode = savedDarkMode, !.loading = FALSE]

\* The 800 ms startup callback
StartupTimer ==
    \E i \in 1..Len(timers) :
        /\ Idle /\ CanFire(i)
        /\ timers[i].kind = "startup"
        /\ Commit(StartupLoad(app, localStorage), localStorage, route, Locals,
                  RemoveAt(timers, i), FALSE, <<>>)

\* toggleDarkMode(), offered by LandingPage and Dashboard
toggleDarkMode ==
    /\ Idle
    /\ Screen \in {"LandingPage", "Dashboard"}
    /\ Commit([app EXCEPT !.darkMode = ~app.darkMode], localStorage, route, Locals,
              timers, FALSE,
              <<Toast("plain", IF app.darkMode THEN "Light mode activated"
                                               ELSE "Dark mode activated")>>)

\* The user reloads the page: every component and timer is gone, localStorage
\* and the location hash stay.
Reload ==
    /\ app' = AppInit
    /\ bodyDark' = FALSE
    /\ landing' = LandingInit /\ login' = LoginInit /\ register' = RegisterInit
    /\ security' = SecurityInit /\ dash' = DashInit /\ compose' = ComposeInit
    /\ view' = ViewInit /\ settings' = SettingsInit(Null)
    /\ timers' = <<>>
    /\ toasted' = <<>>
    /\ atLoad' = localStorage.darkMode
    /\ UNCHANGED <<localStorage, route>>

\* A <Link>, a navigate() button or the address bar: the location changes
Navigate(path, id) ==
    /\ Idle
    /\ ~app.loading
    /\ Route(path, id) # route
    /\ Commit(app, localStorage, Route(path, id), Locals, timers, FALSE, <<>>)


-----------------------------------------------------------------------------
(* Values typed into the forms *)

S_AlEmail == <<"a","l","@","x",".","i","o">>
S_Al == <<"A","l">>
S_abc == <<"a","b","c">>
S_abcdefgh == <<"a","b","c","d","e","f","g","h">>
S_Abcdefg1 == <<"A","b","c","d","e","f","g","1">>
S_Blank == <<" ">>
S_DOE == <<"D","O","E">>
S_Offer == <<"O","f","f","e","r">>
S_board == <<"b","o","a","r","d">>
S_zz == <<"z","z">>
S_AlAtX == <<"a","l","@","x">>
S_SpacedEmail == <<"m","y"," ","a","@","b",".","c"," ","x">>
S_SpaceAfterAt == <<"a","@"," ","b",".","c">>
S_abcdefg1 == <<"a","b","c","d","e","f","g","1">>
S_Ab1Bang == <<"A","b","1","!">>

LoginEmails == {<<>>, S_AlEmail}
LoginPasswords == {<<>>, S_abcdefgh, S_Abcdefg1}

-----------------------------------------------------------------------------
(* LandingPage *)

\* handleDemoLogin(): the button is never disabled
handleDemoLogin ==
    /\ Idle
    /\ Screen = "LandingPage"
    /\ Local(Locals, Append(timers, Timer("LandingPage", "demoLogin", 1500, Null)),
             <<Toast("loading", "Setting up your demo account...")>>)

\* handleDemoLogin's 1500 ms callback
DemoLoginTimer ==
    \E i \in 1..Len(timers) :
        /\ Idle /\ CanFire(i)
        /\ timers[i].kind = "demoLogin"
        /\ Commit(handleLogin(app, LandingDemoUser),
                  handleLoginStorage(localStorage, LandingDemoUser),
                  Route("/dashboard", ""), Locals, RemoveAt(timers, i), TRUE,
                  <<Toast("success", "Demo account ready!"), handleLoginToast>>)

-----------------------------------------------------------------------------
(* Login *)

\* onChange of the email and password inputs
LoginSetEmail(v) ==
    /\ Idle
    /\ Screen = "Login"
    /\ login.email # v
    /\ Local([Locals EXCEPT !.login.email = v], timers, <<>>)

LoginSetPassword(v) ==
    /\ Idle
    /\ Screen = "Login"
    /\ login.password # v
    /\ Local([Locals EXCEPT !.login.password = v], timers, <<>>)

\* Login.handleSubmit up to its setTimeout: the state it leaves
LoginSubmitState(l) ==
    IF ~Truthy(l.email) THEN [l EXCEPT !.error = "Email is required", !.isLoading = FALSE]
    ELSE IF ~Truthy(l.password)
    THEN [l EXCEPT !.error = "Password is required", !.isLoading = FALSE]
    ELSE [l EXCEPT !.error = "", !.isLoading = TRUE]

\* A submit that goes on without a password
LoginSubmitAcceptedEmailOnly(l) == Truthy(l.email)

LoginSubmitAccepted(l) == Truthy(l.email) /\ Truthy(l.password)

\* Login.handleSubmit: the submit button is disabled while isLoading or the
\* social modal is shown
LoginHandleSubmit ==
    /\ Idle
    /\ Screen = "Login"
    /\ ~login.isLoading /\ ~login.showSocialModal
    /\ Local([Locals EXCEPT !.login = LoginSubmitState(login)],
             IF LoginSubmitAccepted(login)
             THEN Append(timers, Timer("Login", "login", 1500,
                                       [email |-> login.email, password |-> login.password]))
             ELSE timers,
             <<>>)

\* Login.handleSubmit's 1500 ms callback
LoginTimer ==
    \E i \in 1..Len(timers) :
        LET t == timers[i]
            user == LoginUser(t.data.email, t.data.password)
        IN /\ Idle /\ CanFire(i)
           /\ t.kind = "login"
           /\ Commit(handleLogin(app, user), handleLoginStorage(localStorage, user),
                     Route("/dashboard", ""),
                     [Locals EXCEPT !.login.isLoading = IF t.alive THEN FALSE ELSE @],
                     RemoveAt(timers, i), TRUE,
                     <<Toast("success", "Login successful!"), handleLoginToast>>)

\* handleSocialLogin(provider): the provider buttons are disabled while the
\* modal is shown.  The loop schedules setSocialStep(i) after i * 800 ms for
\* the four steps, then the completion after 3500 ms.
SocialProviders == {"google", "facebook"}

SocialSteps == 4

SocialLoginState(l, provider) ==
    [l EXCEPT !.selectedProvider = provider, !.showSocialModal = TRUE,
              !.socialStep = 0, !.error = ""]

SocialLoginTimers(ts, provider) ==
    ts \o [i \in 1..SocialSteps |->
             Timer("Login", "socialStep", (i - 1) * 800, [step |-> i - 1])]
       \o <<Timer("Login", "socialComplete", 3500, [provider |-> provider])>>

handleSocialLogin(provider) ==
    /\ Idle
    /\ Screen = "Login"
    /\ ~login.showSocialModal
    /\ Local([Locals EXCEPT !.login = SocialLoginState(login, provider)],
             SocialLoginTimers(timers, provider), <<>>)

\* The step callbacks: setSocialStep(i)
SocialStepTimer ==
    \E i \in 1..Len(timers) :
        /\ Idle /\ CanFire(i)
        /\ timers[i].kind = "socialStep"
        /\ Local([Locals EXCEPT !.login.socialStep =
                                    IF timers[i].alive THEN timers[i].data.step ELSE @],
                 RemoveAt(timers, i), <<>>)

\* The 3500 ms callback: toast, setShowSocialModal(false), onLogin(user),
\* navigate("/dashboard")
SocialCompleteTimer ==
    \E i \in 1..Len(timers) :
        LET t == timers[i]
            user == SocialUser(t.data.provider)
        IN /\ Idle /\ CanFire(i)
           /\ t.kind = "socialComplete"
           /\ Commit(handleLogin(app, user), handleLoginStorage(localStorage, user),
                     Route("/dashboard", ""),
                     [Locals EXCEPT !.login.showSocialModal = IF t.alive THEN FALSE ELSE @],
                     RemoveAt(timers, i), TRUE,
                     <<Toast("success", "Successfully signed in with ${provider}!"),
                       handleLoginToast>>)

\* The modal's close button: setShowSocialModal(false), and nothing else
CloseSocialModal ==
    /\ Idle
    /\ Screen = "Login"
    /\ login.showSocialModal
    /\ Local([Locals EXCEPT !.login.showSocialModal = FALSE], timers, <<>>)

-----------------------------------------------------------------------------
(* Register *)

RegisterFields == {"name", "email", "password", "confirmPassword", "agreeToTerms"}

\* /\S+@\S+\.\S+/.test(s): somewhere in s, a non-space run, "@", a non-space run,
\* ".", a non-space run
EmailRegexTest(s) ==
    \E p, q \in 1..Len(s) :
        /\ s[p] = "@" /\ s[q] = "."
        /\ p > 1 /\ ~IsSpace(s[p - 1])
        /\ q > p + 1 /\ \A k \in (p + 1)..(q - 1) : ~IsSpace(s[k])
        /\ q < Len(s) /\ ~IsSpace(s[q + 1])

HasChar(s, P(_)) == \E i \in 1..Len(s) : P(s[i])
IsSymbol(c) == ~IsUpper(c) /\ ~IsLower(c) /\ ~IsDigit(c)

\* A strength that does not count the length
checkPasswordStrengthNoLength(password) ==
    (IF HasChar(password, IsUpper) THEN 1 ELSE 0)
    + (IF HasChar(password, IsLower) THEN 1 ELSE 0)
    + (IF HasChar(password, IsDigit) THEN 1 ELSE 0)
    + (IF HasChar(password, IsSymbol) THEN 1 ELSE 0)

\* Register.checkPasswordStrength
checkPasswordStrength(password) ==
    (IF Len(password) >= 8 THEN 1 ELSE 0)
    + (IF HasChar(password, IsUpper) THEN 1 ELSE 0)
    + (IF HasChar(password, IsLower) THEN 1 ELSE 0)
    + (IF HasChar(password, IsDigit) THEN 1 ELSE 0)
    + (IF HasChar(password, IsSymbol) THEN 1 ELSE 0)

\* Register.validateForm: the message of each field, "" when the field passes
ValidationMessage(fd, f) ==
    CASE f = "name" -> IF ~Truthy(trim(fd.name)) THEN "Name is required" ELSE ""
      [] f = "email" ->
            IF ~Truthy(trim(fd.email)) THEN "Email is required"
            ELSE IF ~EmailRegexTest(fd.email) THEN "Email is invalid"
            ELSE ""
      [] f = "password" ->
            IF ~Truthy(fd.password) THEN "Password is required"
            ELSE IF Len(fd.password) < 8 THEN "Password must be at least 8 characters"
            ELSE IF checkPasswordStrength(fd.password) < 3 THEN "Password is too weak"
            ELSE ""
      [] f = "confirmPassword" ->
            IF fd.password # fd.confirmPassword THEN "Passwords do not match" ELSE ""
      [] f = "agreeToTerms" ->
            IF ~fd.agreeToTerms THEN "You must agree to the terms and conditions" ELSE ""

\* A validation that does not compare the two passwords
validateFormNoConfirm(fd) ==
    [f \in {g \in RegisterFields \ {"confirmPassword"} : ValidationMessage(fd, g) # ""} |->
        ValidationMessage(fd, f)]

\* Register.validateForm: newErrors holds a key for each field that fails
validateForm(fd) ==
    [f \in {g \in RegisterFields : ValidationMessage(fd, g) # ""} |->
        ValidationMessage(fd, f)]

\* Object.keys(newErrors).length === 0
FormIsValid(fd) == DOMAIN validateForm(fd) = {}

\* Register.handleChange: set the field, and blank the field's error if it has one
handleChangeState(r, name, value) ==
    [r EXCEPT !.formData = [@ EXCEPT ![name] = value],
              !.errors = IF name \in DOMAIN @ /\ @[name] # ""
                         THEN [@ EXCEPT ![name] = ""] ELSE @]

RegisterHandleChange(name, value) ==
    /\ Idle
    /\ Screen = "Register" /\ register.step = 1
    /\ register.formData[name] # value
    /\ Local([Locals EXCEPT !.register = handleChangeState(register, name, value)],
             timers, <<>>)

\* Register.handleSubmit up to its setTimeout
RegisterSubmitState(r) ==
    [r EXCEPT !.errors = validateForm(r.formData),
              !.isLoading = IF FormIsValid(r.formData) THEN TRUE ELSE @]

\* Register.handleSubmit: the submit button is disabled while isLoading
RegisterHandleSubmit ==
    /\ Idle
    /\ Screen = "Register" /\ register.step = 1
    /\ ~register.isLoading
    /\ Local([Locals EXCEPT !.register = RegisterSubmitState(register)],
             IF FormIsValid(register.formData)
             THEN Append(timers, Timer("Register", "register", 1500, register.formData))
             ELSE timers,
             <<>>)

\* Register.handleSubmit's 1500 ms callback
RegisterTimer ==
    \E i \in 1..Len(timers) :
        LET t == timers[i]
            user == RegisterUser(t.data)
        IN /\ Idle /\ CanFire(i)
           /\ t.kind = "register"
           /\ Commit(handleLogin(app, user), handleLoginStorage(localStorage, user), route,
                     [Locals EXCEPT !.register =
                         IF t.alive THEN [@ EXCEPT !.isLoading = FALSE, !.step = 2] ELSE @],
                     RemoveAt(timers, i), TRUE,
                     <<Toast("success", "Account created successfully!"), handleLoginToast>>)

\* Register.handleConnectEmail(provider): step 2, buttons disabled while isLoading
handleConnectEmail ==
    /\ Idle
    /\ Screen = "Register" /\ register.step = 2
    /\ ~register.isLoading
    /\ Local([Locals EXCEPT !.register.isLoading = TRUE],
             Append(timers, Timer("Register", "connectEmail", 1500, Null)),
             <<Toast("loading", "Connecting to ${providerNames[provider]}...")>>)

\* handleConnectEmail's 1500 ms callback
ConnectEmailTimer ==
    \E i \in 1..Len(timers) :
        LET t == timers[i]
        IN /\ Idle /\ CanFire(i)
           /\ t.kind = "connectEmail"
           /\ Commit(app, localStorage, Route("/security-setup", ""),
                     [Locals EXCEPT !.register.isLoading = IF t.alive THEN FALSE ELSE @],
                     RemoveAt(timers, i), FALSE,
                     <<Toast("success", "Connected to ${providerNames[provider]} successfully!")>>)

-----------------------------------------------------------------------------
(* Dashboard: the user menu and logging out *)

ToggleUserMenu ==
    /\ Idle
    /\ Screen = "Dashboard" /\ ~dash.showComposeModal
    /\ Local([Locals EXCEPT !.dash.showUserMenu = ~dash.showUserMenu], timers, <<>>)

\* Dashboard.handleLogout: shows the confirmation toast (5000 ms) and nothing else
DashHandleLogout ==
    /\ Idle
    /\ Screen = "Dashboard" /\ dash.showUserMenu
    /\ ~app.logoutConfirm
    /\ Commit([app EXCEPT !.logoutConfirm = TRUE], localStorage, route, Locals, timers,
              FALSE, <<Toast("confirm", "Are you sure you want to log out?")>>)

\* The toast's Yes button: toast.dismiss, onLogout(), navigate("/").  The
\* Toaster belongs to the root component, so the toast outlives the Dashboard.
LogoutYes ==
    /\ Idle
    /\ app.logoutConfirm
    /\ Commit([handleLogout(app) EXCEPT !.logoutConfirm = FALSE],
              handleLogoutStorage(localStorage), Route("/", ""), Locals, timers,
              app.currentUser # Null, <<handleLogoutToast>>)

\* The toast's No button, or its expiry after 5000 ms
LogoutNo ==
    /\ Idle
    /\ app.logoutConfirm
    /\ Commit([app EXCEPT !.logoutConfirm = FALSE], localStorage, route, Locals, timers,
              FALSE, <<>>)

-----------------------------------------------------------------------------
(* Texts of the mock data *)

S_Body1 ==
    <<"T","h","a","n","k"," ","y","o","u"," ","f","o","r"," ","j","o","i","n","i","n","g"," ",
      "S","e","c","u","r","e","E","m","a","i","l","."," ","W","e"," ","a","r","e"," ","e","x",
      "c","i","t","e","d"," ","t","o"," ","h","a","v","e"," ","y","o","u"," ","o","n"," ","b",
      "o","a","r","d","."," ","T","h","i","s"," ","i","s"," ","a"," ","s","e","c","u","r","e",
      " ","p","l","a","t","f","o","r","m"," ","f","o","r"," ","a","l","l"," ","y","o","u","r",
      " ","e","m","a","i","l"," ","c","o","m","m","u","n","i","c","a","t","i","o","n"," ","n",
      "e","e","d","s",".">>
S_Body2 ==
    <<"W","e"," ","h","a","v","e"," ","a"," ","s","p","e","c","i","a","l"," ","o","f","f","e",
      "r"," ","j","u","s","t"," ","f","o","r"," ","y","o","u","!"," ","C","l","i","c","k"," ",
      "t","h","e"," ","l","i","n","k"," ","b","e","l","o","w"," ","t","o"," ","c","l","a","i",
      "m"," ","y","o","u","r"," ","d","i","s","c","o","u","n","t",".">>
S_Body3 ==
    <<"P","l","e","a","s","e"," ","f","i","n","d"," ","a","t","t","a","c","h","e","d"," ","t",
      "h","e"," ","c","o","n","f","i","d","e","n","t","i","a","l"," ","p","r","o","j","e","c",
      "t"," ","p","r","o","p","o","s","a","l"," ","w","e"," ","d","i","s","c","u","s","s","e",
      "d"," ","y","e","s","t","e","r","d","a","y",".">>
S_Body4 ==
    <<"Y","o","u","r"," ","e","n","c","r","y","p","t","i","o","n"," ","k","e","y","s"," ","h",
      "a","v","e"," ","b","e","e","n"," ","g","e","n","e","r","a","t","e","d"," ","s","u","c",
      "c","e","s","s","f","u","l","l","y","."," ","R","e","m","e","m","b","e","r"," ","t","o",
      " ","k","e","e","p"," ","t","h","e","m"," ","s","a","f","e","!">>
S_JohnDoe ==
    <<"j","o","h","n",".","d","o","e","@","e","x","a","m","p","l","e",".","c","o","m">>
S_Marketing ==
    <<"m","a","r","k","e","t","i","n","g","@","c","o","m","p","a","n","y",".","c","o","m">>
S_You ==
    <<"y","o","u","@","e","x","a","m","p","l","e",".","c","o","m">>
S_Team ==
    <<"t","e","a","m","@","s","e","c","u","r","e","e","m","a","i","l",".","c","o","m">>
S_Subject1 ==
    <<"W","e","l","c","o","m","e"," ","t","o"," ","S","e","c","u","r","e","E","m","a","i","l",
      "!">>
S_Subject2 ==
    <<"S","p","e","c","i","a","l"," ","O","f","f","e","r"," ","I","n","s","i","d","e">>
S_Subject3 ==
    <<"C","o","n","f","i","d","e","n","t","i","a","l"," ","P","r","o","j","e","c","t"," ","P",
      "r","o","p","o","s","a","l">>
S_Subject4 ==
    <<"Y","o","u","r"," ","E","n","c","r","y","p","t","i","o","n"," ","K","e","y","s">>
S_secureemail ==
    <<"s","e","c","u","r","e","e","m","a","i","l">>
S_SecureEmail ==
    <<"S","e","c","u","r","e","E","m","a","i","l">>
S_securemail ==
    <<"s","e","c","u","r","e","m","a","i","l">>

-----------------------------------------------------------------------------
(* ViewEmail *)

\* Values typed into the password, reply and forward inputs
ViewPasswords == {<<>>, S_secureemail, S_SecureEmail, S_securemail}
ViewTexts == {<<>>, S_Blank, S_abc}

\* user?.email || "you@example.com"
UserEmailOr(user, default) ==
    IF user # Null /\ Truthy(user.email) THEN user.email ELSE default

\* The fetch effect's mockEmail: the same email whatever the :id parameter
ViewMockEmail(user) ==
    [id |-> "1", from |-> S_JohnDoe, to |-> <<UserEmailOr(user, S_You)>>,
     subject |-> S_Subject1, isEncrypted |-> TRUE, read |-> TRUE, starred |-> TRUE,
     folder |-> "inbox", passwordProtected |-> TRUE,
     passwordHint |-> "The name of our service (lowercase)"]

\* The fetch effect's 1000 ms callback
ViewFetchState(v, mockEmail) ==
    [v EXCEPT !.email = mockEmail,
              !.isLoadingEmail = FALSE,
              !.showPasswordModal = IF mockEmail.passwordProtected THEN TRUE ELSE @,
              !.isDecrypted = IF mockEmail.passwordProtected THEN @ ELSE TRUE,
              !.forwardMessage = "forwarded"]

ViewFetchTimer ==
    \E i \in 1..Len(timers) :
        /\ Idle /\ CanFire(i)
        /\ timers[i].kind = "viewFetch"
        /\ Local([Locals EXCEPT !.view =
                     IF timers[i].alive
                     THEN ViewFetchState(view, ViewMockEmail(timers[i].data.user))
                     ELSE @],
                 RemoveAt(timers, i), <<>>)

\* The email card is rendered once the email is loaded; the password modal
\* covers it while shown
ViewCard == Screen = "ViewEmail" /\ ~view.isLoadingEmail /\ view.email # Null
ViewCardUsable == ViewCard /\ ~view.showPasswordModal

\* onChange of the modal's password input
ViewSetPassword(v) ==
    /\ Idle
    /\ Screen = "ViewEmail" /\ view.showPasswordModal
    /\ view.password # v
    /\ Local([Locals EXCEPT !.view.password = v], timers, <<>>)

\* A comparison without the lower-casing
PasswordAcceptedExact(password) == password = S_secureemail

\* The comparison made by handlePasswordSubmit
PasswordAccepted(password) == toLowerCase(password) = S_secureemail

\* A submit that closes the modal on a wrong password too
PasswordSubmitStateClosing(v) ==
    IF ~Truthy(v.password) THEN v
    ELSE IF PasswordAccepted(v.password)
    THEN [v EXCEPT !.isDecrypted = TRUE, !.showPasswordModal = FALSE]
    ELSE [v EXCEPT !.showPasswordModal = FALSE]

\* ViewEmail.handlePasswordSubmit: state and toast
PasswordSubmitState(v) ==
    IF ~Truthy(v.password) THEN v
    ELSE IF PasswordAccepted(v.password)
    THEN [v EXCEPT !.isDecrypted = TRUE, !.showPasswordModal = FALSE]
    ELSE v

PasswordSubmitToast(v) ==
    IF ~Truthy(v.password) THEN Toast("error", "Password is required")
    ELSE IF PasswordAccepted(v.password)
    THEN Toast("success", "Email decrypted successfully")
    ELSE Toast("error", "Incorrect password. Please try again.")

handlePasswordSubmit ==
    /\ Idle
    /\ Screen = "ViewEmail" /\ view.showPasswordModal
    /\ Local([Locals EXCEPT !.view = PasswordSubmitState(view)], timers,
             <<PasswordSubmitToast(view)>>)

\* The "Enter Password" button of the locked body.  The button is rendered
\* when the email is loaded, not decrypted, and the modal is closed; the modal
\* opens with the load and closes only with an accepted password, so the
\* button is reached in no run (ViewEnterPasswordHidden) and is no disjunct
\* of the next-state relations below.
ViewEnterPassword ==
    /\ Idle
    /\ ViewCardUsable /\ ~view.isDecrypted
    /\ Local([Locals EXCEPT !.view.showPasswordModal = TRUE], timers, <<>>)

ViewEnterPasswordHidden == ~(ViewCardUsable /\ ~view.isDecrypted)

\* The "view encrypted version" toggle of the decrypted body
ViewToggleEncrypted ==
    /\ Idle
    /\ ViewCardUsable /\ view.isDecrypted
    /\ Local([Locals EXCEPT !.view.showEncryptedContent = ~view.showEncryptedContent],
             timers, <<>>)

\* The Reply and Forward buttons, rendered only when isDecrypted
ViewToggleReply ==
    /\ Idle
    /\ ViewCardUsable /\ view.isDecrypted
    /\ Local([Locals EXCEPT !.view =
                 IF view.showReplyBox THEN [view EXCEPT !.showReplyBox = FALSE]
                 ELSE [view EXCEPT !.showReplyBox = TRUE, !.showForwardBox = FALSE]],
             timers, <<>>)

ViewToggleForward ==
    /\ Idle
    /\ ViewCardUsable /\ view.isDecrypted
    /\ Local([Locals EXCEPT !.view =
                 IF view.showForwardBox THEN [view EXCEPT !.showForwardBox = FALSE]
                 ELSE [view EXCEPT !.showForwardBox = TRUE, !.showReplyBox = FALSE]],
             timers, <<>>)

ViewSetReplyMessage(v) ==
    /\ Idle
    /\ ViewCardUsable /\ view.isDecrypted /\ view.showReplyBox
    /\ view.replyMessage # v
    /\ Local([Locals EXCEPT !.view.replyMessage = v], timers, <<>>)

\* A check of the reply that forgets trim()
ReplyRejectedUntrimmed(v) == ~Truthy(v.replyMessage)

\* ViewEmail.handleReplySubmit
ReplyRejected(v) == ~Truthy(trim(v.replyMessage))

handleReplySubmit ==
    /\ Idle
    /\ ViewCardUsable /\ view.isDecrypted /\ view.showReplyBox
    /\ Local([Locals EXCEPT !.view =
                 IF ReplyRejected(view) THEN view
                 ELSE [view EXCEPT !.showReplyBox = FALSE, !.replyMessage = <<>>]],
             timers,
             <<IF ReplyRejected(view) THEN Toast("error", "Reply message is required")
               ELSE Toast("success", "Reply sent securely")>>)

ViewSetForwardRecipient(v) ==
    /\ Idle
    /\ ViewCardUsable /\ view.isDecrypted /\ view.showForwardBox
    /\ view.forwardRecipient # v
    /\ Local([Locals EXCEPT !.view.forwardRecipient = v], timers, <<>>)

\* ViewEmail.handleForwardSubmit
ForwardRejected(v) == ~Truthy(trim(v.forwardRecipient))

handleForwardSubmit ==
    /\ Idle
    /\ ViewCardUsable /\ view.isDecrypted /\ view.showForwardBox
    /\ Local([Locals EXCEPT !.view =
                 IF ForwardRejected(view) THEN view
                 ELSE [view EXCEPT !.showForwardBox = FALSE]],
             timers,
             <<IF ForwardRejected(view) THEN Toast("error", "Recipient is required")
               ELSE Toast("success", "Email forwarded securely")>>)

\* ViewEmail.handleDownload and its 1500 ms callback
handleDownload ==
    /\ Idle
    /\ ViewCardUsable /\ ~view.isDownloading
    /\ Local([Locals EXCEPT !.view.isDownloading = TRUE],
             Append(timers, Timer("ViewEmail", "download", 1500, Null)), <<>>)

DownloadTimer ==
    \E i \in 1..Len(timers) :
        /\ Idle /\ CanFire(i)
        /\ timers[i].kind = "download"
        /\ Local([Locals EXCEPT !.view.isDownloading = IF timers[i].alive THEN FALSE ELSE @],
                 RemoveAt(timers, i), <<Toast("success", "File downloaded securely")>>)

-----------------------------------------------------------------------------
(* Dashboard *)

\* The first NumEmails of the ten mock emails of the fetch effect.  The body
\* of an email is never changed, so it is looked up by id (EmailBody).
MockEmailList(user) ==
    << [id |-> "1", from |-> S_JohnDoe, subject |-> S_Subject1,
        read |-> FALSE, starred |-> TRUE, folder |-> "inbox"],
       [id |-> "2", from |-> S_Marketing, subject |-> S_Subject2,
        read |-> TRUE, starred |-> FALSE, folder |-> "inbox"],
       [id |-> "3", from |-> UserEmailOr(user, S_You), subject |-> S_Subject3,
        read |-> TRUE, starred |-> FALSE, folder |-> "sent"],
       [id |-> "4", from |-> S_Team, subject |-> S_Subject4,
        read |-> TRUE, starred |-> TRUE, folder |-> "inbox"] >>

MockEmails(user) == SubSeq(MockEmailList(user), 1, NumEmails)

EmailBody(id) ==
    CASE id = "1" -> S_Body1
      [] id = "2" -> S_Body2
      [] id = "3" -> S_Body3
      [] id = "4" -> S_Body4

\* The mock-email effect's 1000 ms callback
DashFetchTimer ==
    \E i \in 1..Len(timers) :
        /\ Idle /\ CanFire(i)
        /\ timers[i].kind = "dashFetch"
        /\ Local([Locals EXCEPT !.dash =
                     IF timers[i].alive
                     THEN [@ EXCEPT !.emails = MockEmails(timers[i].data.user),
                                    !.isRefreshing = FALSE]
                     ELSE @],
                 RemoveAt(timers, i), <<>>)

\* Array.prototype.includes on a string
Includes(s, term) ==
    \E i \in 0..(Len(s) - Len(term)) : SubSeq(s, i + 1, i + Len(term)) = term

\* filteredEmails
FolderFilter(d, email) ==
    IF d.activeTab = "starred" THEN email.starred ELSE email.folder = d.activeTab

\* A search that compares without lower-casing
SearchFilterCaseSensitive(d, email) ==
    IF ~Truthy(d.searchTerm) THEN TRUE
    ELSE \/ Includes(email.subject, d.searchTerm)
         \/ Includes(email.from, d.searchTerm)
         \/ Includes(EmailBody(email.id), d.searchTerm)

SearchFilter(d, email) ==
    IF ~Truthy(d.searchTerm) THEN TRUE
    ELSE LET term == toLowerCase(d.searchTerm)
         IN \/ Includes(toLowerCase(email.subject), term)
            \/ Includes(toLowerCase(email.from), term)
            \/ Includes(toLowerCase(EmailBody(email.id)), term)

filteredEmails(d) ==
    SelectSeq(SelectSeq(d.emails, LAMBDA email : FolderFilter(d, email)),
              LAMBDA email : SearchFilter(d, email))

SeqIncludes(s, x) == \E i \in 1..Len(s) : s[i] = x

EmailIds(emails) == [i \in 1..Len(emails) |-> emails[i].id]

MapEmails(emails, Hit(_), Change(_)) ==
    [i \in 1..Len(emails) |-> IF Hit(emails[i]) THEN Change(emails[i]) ELSE emails[i]]

\* getUnreadCount(folder)
getUnreadCount(d, folder) ==
    Len(SelectSeq(d.emails, LAMBDA email : email.folder = folder /\ ~email.read))

\* The Dashboard is on screen and not covered by the Compose overlay
DashUsable == Idle /\ Screen = "Dashboard" /\ ~dash.showComposeModal

DashTabs == {"inbox", "encrypted", "starred", "sent", "drafts", "trash"}

setActiveTab(tab) ==
    /\ DashUsable
    /\ dash.activeTab # tab
    /\ Local([Locals EXCEPT !.dash.activeTab = tab], timers, <<>>)

setSearchTerm(term) ==
    /\ DashUsable
    /\ dash.searchTerm # term
    /\ Local([Locals EXCEPT !.dash.searchTerm = term], timers, <<>>)

\* toggleEmailSelection(emailId), from the checkbox of a listed email
toggleEmailSelectionState(d, emailId) ==
    [d EXCEPT !.selectedEmails =
        IF SeqIncludes(@, emailId) THEN SelectSeq(@, LAMBDA id : id # emailId)
        ELSE Append(@, emailId)]

toggleEmailSelection(emailId) ==
    /\ DashUsable
    /\ SeqIncludes(EmailIds(filteredEmails(dash)), emailId)
    /\ Local([Locals EXCEPT !.dash = toggleEmailSelectionState(dash, emailId)], timers, <<>>)

\* toggleSelectAll(), from the checkbox over a non-empty list
toggleSelectAllState(d) ==
    [d EXCEPT !.selectedEmails = IF d.isSelectAll THEN <<>> ELSE EmailIds(filteredEmails(d)),
              !.isSelectAll = ~d.isSelectAll]

toggleSelectAll ==
    /\ DashUsable
    /\ Len(filteredEmails(dash)) > 0
    /\ Local([Locals EXCEPT !.dash = toggleSelectAllState(dash)], timers, <<>>)

\* handleEmailClick(emailId): setEmails, then navigate to the email view
handleEmailClickEmails(d, emailId) ==
    MapEmails(d.emails, LAMBDA e : e.id = emailId, LAMBDA e : [e EXCEPT !.read = TRUE])

handleEmailClick(emailId) ==
    /\ DashUsable
    /\ SeqIncludes(EmailIds(filteredEmails(dash)), emailId)
    /\ Commit(app, localStorage, Route("/view-email", emailId),
              [Locals EXCEPT !.dash.emails = handleEmailClickEmails(dash, emailId)],
              timers, FALSE, <<>>)

\* handleRefresh() and its 1000 ms callback
handleRefresh ==
    /\ DashUsable
    /\ Len(dash.selectedEmails) = 0
    /\ ~dash.isRefreshing
    /\ Local([Locals EXCEPT !.dash.isRefreshing = TRUE],
             Append(timers, Timer("Dashboard", "refresh", 1000, Null)), <<>>)

RefreshTimer ==
    \E i \in 1..Len(timers) :
        /\ Idle /\ CanFire(i)
        /\ timers[i].kind = "refresh"
        /\ Local([Locals EXCEPT !.dash.isRefreshing = IF timers[i].alive THEN FALSE ELSE @],
                 RemoveAt(timers, i), <<Toast("success", "Inbox refreshed")>>)

\* toggleStar(emailId)
toggleStarEmails(d, emailId) ==
    MapEmails(d.emails, LAMBDA e : e.id = emailId,
              LAMBDA e : [e EXCEPT !.starred = ~e.starred])

toggleStar(emailId) ==
    /\ DashUsable
    /\ SeqIncludes(EmailIds(filteredEmails(dash)), emailId)
    /\ Local([Locals EXCEPT !.dash.emails = toggleStarEmails(dash, emailId)], timers,
             <<Toast("success", "Email updated")>>)

\* The three bulk handlers: emails, toast and selection
MoveSelectedIgnoringSelection(d, folder) ==
    [d EXCEPT !.emails = MapEmails(@, LAMBDA e : TRUE, LAMBDA e : [e EXCEPT !.folder = folder]),
              !.selectedEmails = <<>>,
              !.isSelectAll = FALSE]

MoveSelected(d, folder) ==
    [d EXCEPT !.emails = MapEmails(@, LAMBDA e : SeqIncludes(d.selectedEmails, e.id),
                                   LAMBDA e : [e EXCEPT !.folder = folder]),
              !.selectedEmails = <<>>,
              !.isSelectAll = FALSE]

\* The bulk buttons are rendered while something is selected
BulkUsable == DashUsable /\ Len(dash.selectedEmails) > 0

deleteSelectedEmails ==
    /\ BulkUsable
    /\ Local([Locals EXCEPT !.dash = MoveSelected(dash, "trash")], timers,
             <<Toast("success", "${selectedEmails.length} email(s) moved to trash")>>)

archiveSelectedEmails ==
    /\ BulkUsable
    /\ Local([Locals EXCEPT !.dash = MoveSelected(dash, "archived")], timers,
             <<Toast("success", "${selectedEmails.length} email(s) archived")>>)

\* A bulk mark that leaves the select-all checkbox as it is
markSelectedEmailsAsKeepingSelectAll(d, readStatus) ==
    [d EXCEPT !.emails = MapEmails(@, LAMBDA e : SeqIncludes(d.selectedEmails, e.id),
                                   LAMBDA e : [e EXCEPT !.read = readStatus]),
              !.selectedEmails = <<>>]

markSelectedEmailsAsState(d, readStatus) ==
    [d EXCEPT !.emails = MapEmails(@, LAMBDA e : SeqIncludes(d.selectedEmails, e.id),
                                   LAMBDA e : [e EXCEPT !.read = readStatus]),
              !.selectedEmails = <<>>,
              !.isSelectAll = FALSE]

markSelectedEmailsAs(readStatus) ==
    /\ BulkUsable
    /\ Local([Locals EXCEPT !.dash = markSelectedEmailsAsState(dash, readStatus)], timers,
             <<Toast("success", IF readStatus THEN "${selectedEmails.length} email(s) marked as read"
                                ELSE "${selectedEmails.length} email(s) marked as unread")>>)

\* The Compose button: setShowComposeModal(true)
OpenCompose ==
    /\ DashUsable
    /\ Local([Locals EXCEPT !.dash.showComposeModal = TRUE], timers, <<>>)

-----------------------------------------------------------------------------
(* Compose *)

ComposeTexts == {<<>>, S_Blank, S_abc}

\* Compose is rendered by the /compose route, or as the Dashboard's modal
ComposeMounted == Screen = "Compose" \/ (Screen = "Dashboard" /\ dash.showComposeModal)
ComposeUsable == Idle /\ ComposeMounted

\* The onClose prop of the mounted Compose: the Dashboard passes
\* () => setShowComposeModal(false), the /compose route passes nothing
OnCloseProp == IF Screen = "Dashboard" THEN "dash" ELSE "none"

ComposeTimer(kind, delay, data) ==
    [Timer("Compose", kind, delay, data) EXCEPT !.onClose = OnCloseProp]

\* The modal is taken off the screen: Compose unmounts.  Its pending callbacks
\* keep the onClose they closed over; the auto-save timer is cleared by the
\* effect's cleanup.
UnmountCompose(ts) ==
    LET kept == SelectSeq(ts, LAMBDA x : ~(x.owner = "Compose" /\ x.kind \in ClearedOnUnmount))
    IN [i \in 1..Len(kept) |->
          IF kept[i].owner = "Compose" THEN [kept[i] EXCEPT !.alive = FALSE] ELSE kept[i]]

\* Calling an onClose: setShowComposeModal(false) of the Dashboard that passed it
CallOnClose(loc, ts, onClose, toasts) ==
    IF onClose = "dash"
    THEN Local([loc EXCEPT !.dash.showComposeModal = FALSE, !.compose = ComposeInit],
               UnmountCompose(ts), toasts)
    ELSE Local(loc, ts, toasts)

\* The "touched" effect
TouchedAfter(c) ==
    \/ c.formTouched
    \/ Truthy(c.recipient) \/ Truthy(c.subject) \/ Truthy(c.message)
    \/ Len(c.recipients) > 0 \/ c.attachments > 0

AutoSaveDeps(c) == <<c.recipient, c.subject, c.message, c.recipients, c.formTouched>>

\* The effects after a render of Compose with state c: formTouched is set,
\* and when a dependency of the auto-save effect changed its timer is cleared
\* (the cleanup's clearTimeout) and, if formTouched, set again (30000 ms).
\* The callback closes over the render that set it: its handleSaveAsDraft
\* sees that render's fields and draftId.
KeydownDeps(c) == <<c.recipient, c.subject, c.message>>

ComposeEffectsState(c) ==
    [c EXCEPT !.formTouched = TouchedAfter(c),
              !.keydown = IF KeydownDeps(c) # KeydownDeps(compose)
                          THEN KeydownClosure(c) ELSE @]

AutoSaveClosure(c) == [deps |-> AutoSaveDeps(c), hadDraftId |-> c.draftId # "null"]

ComposeEffectsTimers(c, ts) ==
    LET c1 == ComposeEffectsState(c)
        cleared == SelectSeq(ts, LAMBDA x : ~(x.kind = "autosave" /\ x.alive))
    IN IF AutoSaveDeps(c1) = AutoSaveDeps(compose) THEN ts
       ELSE IF c1.formTouched
            THEN Append(cleared, ComposeTimer("autosave", 30000, AutoSaveClosure(c1)))
            ELSE cleared

\* A handler of Compose that leaves state c
ComposeSet(c) ==
    Local([Locals EXCEPT !.compose = ComposeEffectsState(c)],
          ComposeEffectsTimers(c, timers), <<>>)

setRecipient(v) ==
    /\ ComposeUsable /\ compose.recipient # v
    /\ ComposeSet([compose EXCEPT !.recipient = v])

setSubject(v) ==
    /\ ComposeUsable /\ compose.subject # v
    /\ ComposeSet([compose EXCEPT !.subject = v])

setMessage(v) ==
    /\ ComposeUsable /\ compose.message # v
    /\ ComposeSet([compose EXCEPT !.message = v])

setPasswordProtected ==
    /\ ComposeUsable
    /\ ComposeSet([compose EXCEPT !.passwordProtected = ~@])

ComposeSetPassword(v) ==
    /\ ComposeUsable /\ compose.passwordProtected /\ compose.password # v
    /\ ComposeSet([compose EXCEPT !.password = v])

\* handleFileChange with one chosen file, and removeAttachment(index)
handleFileChange ==
    /\ ComposeUsable
    /\ compose.attachments < MaxAttachments
    /\ ComposeSet([compose EXCEPT !.attachments = @ + 1, !.formTouched = TRUE])

removeAttachment ==
    /\ ComposeUsable
    /\ compose.attachments > 0
    /\ ComposeSet([compose EXCEPT !.attachments = @ - 1])

\* handleRecipientInput on Enter, "," or ";"
handleRecipientInputState(c) ==
    IF Truthy(trim(c.recipient))
    THEN [c EXCEPT !.recipients = Append(@, trim(c.recipient)), !.recipient = <<>>]
    ELSE c

handleRecipientInput ==
    /\ ComposeUsable
    /\ Len(compose.recipients) < MaxRecipients
    /\ ComposeSet(handleRecipientInputState(compose))

\* Compose.handleSubmit: the first failing check, or "" when the form passes
SubmitError(c) ==
    IF Len(c.recipients) = 0 /\ trim(c.recipient) = <<>>
    THEN "Please enter at least one recipient"
    ELSE IF trim(c.subject) = <<>> THEN "Please enter a subject"
    ELSE IF trim(c.message) = <<>> THEN "Please enter a message"
    ELSE IF c.passwordProtected /\ trim(c.password) = <<>> THEN "Please enter a password"
    ELSE ""

\* Compose.handleSubmit
handleSubmit ==
    IF SubmitError(compose) # ""
    THEN Local(Locals, timers, <<Toast("error", SubmitError(compose))>>)
    ELSE Local([Locals EXCEPT !.compose.isSending = TRUE],
               Append(timers, ComposeTimer("send", 1500, Null)), <<>>)

\* The Send button (disabled while isSending)
ComposeHandleSubmit ==
    /\ ComposeUsable
    /\ ~compose.isSending
    /\ handleSubmit

\* Ctrl/Cmd + Enter: the window's keydown listener dispatches a submit event
\* on the form, whatever isSending is
ComposeCtrlEnter ==
    /\ ComposeUsable
    /\ handleSubmit

\* The 1500 ms callback of handleSubmit
SendTimer ==
    \E i \in 1..Len(timers) :
        /\ Idle /\ CanFire(i)
        /\ timers[i].kind = "send"
        /\ CallOnClose([Locals EXCEPT !.compose.isSending =
                                         IF timers[i].alive THEN FALSE ELSE @],
                       RemoveAt(timers, i), timers[i].onClose,
                       <<Toast("success", "Email sent securely!")>>)

\* handleSaveAsDraft(silent), as called with the state c of the render it
\* closed over
SaveAsDraftStarts(c) == c.formTouched

SaveAsDraftTimer(c, silent) ==
    ComposeTimer("draft", 800, [silent |-> silent, hadDraftId |-> c.draftId # "null"])

\* The Save Draft button (disabled while draftSaving)
handleSaveAsDraft ==
    /\ ComposeUsable
    /\ ~compose.draftSaving
    /\ IF SaveAsDraftStarts(compose)
       THEN Local([Locals EXCEPT !.compose.draftSaving = TRUE],
                  Append(timers, SaveAsDraftTimer(compose, FALSE)), <<>>)
       ELSE Local(Locals, timers, <<>>)

\* Ctrl/Cmd + S: the keydown listener calls the handleSaveAsDraft() it closed
\* over, whatever draftSaving is
CtrlSStarts(c) == c.keydown.formTouched

ComposeCtrlS ==
    /\ ComposeUsable
    /\ IF CtrlSStarts(compose)
       THEN Local([Locals EXCEPT !.compose.draftSaving = TRUE],
                  Append(timers,
                         ComposeTimer("draft", 800,
                                      [silent |-> FALSE,
                                       hadDraftId |-> compose.keydown.hadDraftId])),
                  <<>>)
       ELSE Local(Locals, timers, <<>>)

\* The 30000 ms auto-save callback: handleSaveAsDraft(true)
AutoSaveTimer ==
    \E i \in 1..Len(timers) :
        /\ Idle /\ CanFire(i)
        /\ timers[i].kind = "autosave"
        /\ Local([Locals EXCEPT !.compose.draftSaving = TRUE],
                 Append(RemoveAt(timers, i),
                        ComposeTimer("draft", 800,
                                     [silent |-> TRUE,
                                      hadDraftId |-> timers[i].data.hadDraftId])),
                 <<>>)

\* The 800 ms callback of handleSaveAsDraft
DraftTimerState(c, x) ==
    IF ~x.alive THEN c
    ELSE [c EXCEPT !.draftId = IF x.data.hadDraftId THEN @ ELSE "draft",
                   !.draftSaving = FALSE, !.draftSaved = TRUE, !.isDraft = TRUE]

DraftTimerTimers(ts, x) ==
    LET close == [x EXCEPT !.kind = "draftClose", !.delay = 1000, !.data = Null]
        reset == [x EXCEPT !.kind = "draftReset", !.delay = 3000, !.data = Null]
        ts1 == IF x.data.silent THEN ts ELSE Append(ts, close)
    IN Append(ts1, reset)

DraftTimerToast(x) ==
    IF x.data.silent THEN Toast("plain", "Draft saved automatically")
    ELSE Toast("success", "Email saved as draft")

DraftTimer ==
    \E i \in 1..Len(timers) :
        /\ Idle /\ CanFire(i)
        /\ timers[i].kind = "draft"
        /\ Local([Locals EXCEPT !.compose = DraftTimerState(compose, timers[i])],
                 DraftTimerTimers(RemoveAt(timers, i), timers[i]),
                 <<DraftTimerToast(timers[i])>>)

\* The 1000 ms callback scheduled by a non-silent save: onClose()
DraftCloseTimer ==
    \E i \in 1..Len(timers) :
        /\ Idle /\ CanFire(i)
        /\ timers[i].kind = "draftClose"
        /\ CallOnClose(Locals, RemoveAt(timers, i), timers[i].onClose, <<>>)

\* The 3000 ms callback: setDraftSaved(false)
DraftResetTimer ==
    \E i \in 1..Len(timers) :
        /\ Idle /\ CanFire(i)
        /\ timers[i].kind = "draftReset"
        /\ Local([Locals EXCEPT !.compose.draftSaved = IF timers[i].alive THEN FALSE ELSE @],
                 RemoveAt(timers, i), <<>>)

\* The Cancel and X buttons, the overlay and Escape: onClose
ComposeClose ==
    /\ ComposeUsable
    /\ OnCloseProp = "dash"
    /\ CallOnClose(Locals, timers, "dash", <<>>)

\* The "add key" modal of Compose
ComposeShowAddKeyModal(b) ==
    /\ ComposeUsable
    /\ compose.showAddKeyModal # b
    /\ ComposeSet([compose EXCEPT !.showAddKeyModal = b])

setNewKeyName(v) ==
    /\ ComposeUsable /\ compose.showAddKeyModal /\ compose.newKeyName # v
    /\ ComposeSet([compose EXCEPT !.newKeyName = v])

\* Compose.handleGenerateNewKey and its 1500 ms callback
handleGenerateNewKey ==
    /\ ComposeUsable /\ compose.showAddKeyModal
    /\ ~compose.isGeneratingKey
    /\ IF ~Truthy(trim(compose.newKeyName))
       THEN Local(Locals, timers, <<Toast("error", "Please enter a key name")>>)
       ELSE Local([Locals EXCEPT !.compose.isGeneratingKey = TRUE],
                  Append(timers, ComposeTimer("genKey", 1500,
                                              [encryptionKeys |-> compose.encryptionKeys])),
                  <<>>)

GenerateNewKeyTimer ==
    \E i \in 1..Len(timers) :
        /\ Idle /\ CanFire(i)
        /\ timers[i].kind = "genKey"
        /\ Local([Locals EXCEPT !.compose =
                     IF ~timers[i].alive THEN @
                     ELSE [@ EXCEPT !.encryptionKeys = timers[i].data.encryptionKeys + 1,
                                    !.selectedEncryptionKey = "new-key",
                                    !.isGeneratingKey = FALSE,
                                    !.showAddKeyModal = FALSE,
                                    !.newKeyName = <<>>]],
                 RemoveAt(timers, i),
                 <<Toast("success", "New encryption key generated successfully!")>>)

-----------------------------------------------------------------------------
(* SecuritySetup *)

SecurityUsable == Idle /\ Screen = "SecuritySetup" /\ ~security.showConfirmDialog

\* The two-factor checkbox of step 1
setTwoFactorEnabled ==
    /\ SecurityUsable /\ security.step = 1
    /\ Local([Locals EXCEPT !.security.twoFactorEnabled = ~@], timers, <<>>)

\* Continue (step 1) and Back (step 2)
SecuritySetStep(n) ==
    /\ SecurityUsable /\ security.step # n
    /\ Local([Locals EXCEPT !.security.step = n], timers, <<>>)

\* handleGenerateKeys() and its 2000 ms callback
handleGenerateKeys ==
    /\ SecurityUsable /\ security.step = 2
    /\ ~security.generatingKeys
    /\ Len(security.keys) <= MaxKeys
    /\ Local([Locals EXCEPT !.security.generatingKeys = TRUE],
             Append(timers, Timer("SecuritySetup", "generateKeys", 2000, Null)), <<>>)

NewSecurityKey(prev) ==
    [id |-> Len(prev), name |-> "New Encryption Key", fingerprint |-> "XY:Z1:23:45:67:89",
     isActive |-> FALSE]

GenerateKeysTimer ==
    \E i \in 1..Len(timers) :
        /\ Idle /\ CanFire(i)
        /\ timers[i].kind = "generateKeys"
        /\ Local([Locals EXCEPT !.security =
                     IF ~timers[i].alive THEN @
                     ELSE [@ EXCEPT !.keys = Append(@, NewSecurityKey(@)),
                                    !.generatingKeys = FALSE,
                                    !.keyGenerated = TRUE]],
                 RemoveAt(timers, i),
                 <<Toast("success", "New encryption keys generated successfully!")>>)

\* handleSetKeyActive(keyId), offered for the keys that are not active
handleSetKeyActive(keyId) ==
    /\ SecurityUsable /\ security.step = 2
    /\ \E k \in 1..Len(security.keys) :
          security.keys[k].id = keyId /\ ~security.keys[k].isActive
    /\ Local([Locals EXCEPT !.security.pendingKeyAction = [type |-> "activate", keyId |-> keyId],
                            !.security.showConfirmDialog = TRUE],
             timers, <<>>)

\* An activation that leaves the other keys as they are
confirmKeyActionAdding(s) ==
    LET activate == s.pendingKeyAction # Null /\ s.pendingKeyAction.type = "activate"
        s1 == IF activate
              THEN [s EXCEPT !.keys = [k \in 1..Len(s.keys) |->
                                          [s.keys[k] EXCEPT !.isActive =
                                              @ \/ s.keys[k].id = s.pendingKeyAction.keyId]],
                             !.activeKeyId = s.pendingKeyAction.keyId]
              ELSE s
    IN [s1 EXCEPT !.showConfirmDialog = FALSE, !.pendingKeyAction = Null]

\* confirmKeyAction(), the dialog's Confirm button
confirmKeyActionState(s) ==
    LET activate == s.pendingKeyAction # Null /\ s.pendingKeyAction.type = "activate"
        s1 == IF activate
              THEN [s EXCEPT !.keys = [k \in 1..Len(s.keys) |->
                                          [s.keys[k] EXCEPT !.isActive =
                                              s.keys[k].id = s.pendingKeyAction.keyId]],
                             !.activeKeyId = s.pendingKeyAction.keyId]
              ELSE s
    IN [s1 EXCEPT !.showConfirmDialog = FALSE, !.pendingKeyAction = Null]

confirmKeyAction ==
    /\ Idle /\ Screen = "SecuritySetup" /\ security.showConfirmDialog
    /\ Local([Locals EXCEPT !.security = confirmKeyActionState(security)], timers,
             IF security.pendingKeyAction # Null
             THEN <<Toast("success", "Encryption key activated successfully!")>>
             ELSE <<>>)

\* The dialog's Cancel button: setShowConfirmDialog(false) only
cancelKeyAction ==
    /\ Idle /\ Screen = "SecuritySetup" /\ security.showConfirmDialog
    /\ Local([Locals EXCEPT !.security.showConfirmDialog = FALSE], timers, <<>>)

\* handleComplete() and its 1000 ms callback
handleComplete ==
    /\ SecurityUsable /\ security.step = 2
    /\ ~security.isLoading
    /\ Local([Locals EXCEPT !.security.isLoading = TRUE],
             Append(timers, Timer("SecuritySetup", "complete", 1000, Null)), <<>>)

CompleteTimer ==
    \E i \in 1..Len(timers) :
        /\ Idle /\ CanFire(i)
        /\ timers[i].kind = "complete"
        /\ Commit(app, localStorage, Route("/dashboard", ""),
                  [Locals EXCEPT !.security.isLoading = IF timers[i].alive THEN FALSE ELSE @],
                  RemoveAt(timers, i), FALSE,
                  <<Toast("success", "Security setup completed successfully!")>>)

-----------------------------------------------------------------------------
(* Settings *)

SettingsTexts == {<<>>, S_abc}

SettingsUsable == Idle /\ Screen = "Settings"

setProfileName(v) ==
    /\ SettingsUsable /\ settings.profileName # v
    /\ Local([Locals EXCEPT !.settings.profileName = v], timers, <<>>)

\* handleSaveProfile() and its 1500 ms callback
handleSaveProfile ==
    /\ SettingsUsable
    /\ ~settings.isSaving
    /\ Local([Locals EXCEPT !.settings.isSaving = TRUE],
             Append(timers, Timer("Settings", "saveProfile", 1500, Null)), <<>>)

\* A save that writes the edited name into the session user and localStorage
SaveProfileTimerStoring ==
    \E i \in 1..Len(timers) :
        LET user == IF app.currentUser = Null THEN Null
                    ELSE [app.currentUser EXCEPT !.name = settings.profileName]
        IN /\ Idle /\ CanFire(i)
           /\ timers[i].kind = "saveProfile"
           /\ Commit([app EXCEPT !.currentUser = user],
                     [localStorage EXCEPT !.user = Item(JSONstringify(user))], route,
                     [Locals EXCEPT !.settings.isSaving = IF timers[i].alive THEN FALSE ELSE @],
                     RemoveAt(timers, i), FALSE,
                     <<Toast("success", "Profile updated successfully")>>)

SaveProfileTimer ==
    \E i \in 1..Len(timers) :
        /\ Idle /\ CanFire(i)
        /\ timers[i].kind = "saveProfile"
        /\ Local([Locals EXCEPT !.settings.isSaving = IF timers[i].alive THEN FALSE ELSE @],
                 RemoveAt(timers, i), <<Toast("success", "Profile updated successfully")>>)

SettingsShowAddKeyModal(b) ==
    /\ SettingsUsable /\ settings.showAddKeyModal # b
    /\ Local([Locals EXCEPT !.settings.showAddKeyModal = b], timers, <<>>)

setKeyName(v) ==
    /\ SettingsUsable /\ settings.showAddKeyModal /\ settings.keyName # v
    /\ Local([Locals EXCEPT !.settings.keyName = v], timers, <<>>)

\* Settings.handleGenerateKey and its 2000 ms callback
handleGenerateKey ==
    /\ SettingsUsable /\ settings.showAddKeyModal
    /\ ~settings.isGeneratingKey
    /\ IF ~Truthy(settings.keyName)
       THEN Local(Locals, timers, <<Toast("error", "Key name is required")>>)
       ELSE Local([Locals EXCEPT !.settings.isGeneratingKey = TRUE],
                  Append(timers, Timer("Settings", "settingsGenKey", 2000, Null)), <<>>)

GenerateKeyTimer ==
    \E i \in 1..Len(timers) :
        /\ Idle /\ CanFire(i)
        /\ timers[i].kind = "settingsGenKey"
        /\ Local([Locals EXCEPT !.settings =
                     IF ~timers[i].alive THEN @
                     ELSE [@ EXCEPT !.isGeneratingKey = FALSE, !.showAddKeyModal = FALSE,
                                    !.keyName = <<>>]],
                 RemoveAt(timers, i),
                 <<Toast("success", "New encryption key generated successfully")>>)

SettingsShowAddAccountModal(b) ==
    /\ SettingsUsable /\ settings.showAddAccountModal # b
    /\ Local([Locals EXCEPT !.settings.showAddAccountModal = b], timers, <<>>)

\* handleAddAccount(provider)
handleAddAccount ==
    /\ SettingsUsable /\ settings.showAddAccountModal
    /\ Local([Locals EXCEPT !.settings.showAddAccountModal = FALSE], timers,
             <<Toast("success", "Connected to ${provider} successfully")>>)

-----------------------------------------------------------------------------
(* Specifications *)

\* A first visit: nothing stored yet
Init ==
    /\ app = AppInit
    /\ localStorage = [user |-> Absent, darkMode |-> Absent]
    /\ bodyDark = FALSE
    /\ route = Route("/", "")
    /\ landing = LandingInit /\ login = LoginInit /\ register = RegisterInit
    /\ security = SecurityInit /\ dash = DashInit /\ compose = ComposeInit
    /\ view = ViewInit /\ settings = SettingsInit(Null)
    /\ timers = <<>>
    /\ toasted = <<>>
    /\ atLoad = localStorage.darkMode

NextApp ==
    \/ MountEffects
    \/ DarkModeEffect
    \/ StartupTimer
    \/ toggleDarkMode
    \/ Reload

NextLogin ==
    \/ handleDemoLogin
    \/ DemoLoginTimer
    \/ \E v \in LoginEmails : LoginSetEmail(v)
    \/ \E v \in LoginPasswords : LoginSetPassword(v)
    \/ LoginHandleSubmit
    \/ LoginTimer
    \/ \E p \in SocialProviders : handleSocialLogin(p)
    \/ SocialStepTimer
    \/ SocialCompleteTimer
    \/ CloseSocialModal

RegisterNames == {<<>>, S_Al}
RegisterEmails == {<<>>, S_AlEmail}
RegisterPasswords == {<<>>, S_Abcdefg1}

NextRegister ==
    \/ \E v \in RegisterNames : RegisterHandleChange("name", v)
    \/ \E v \in RegisterEmails : RegisterHandleChange("email", v)
    \/ \E v \in RegisterPasswords : RegisterHandleChange("password", v)
    \/ \E v \in RegisterPasswords : RegisterHandleChange("confirmPassword", v)
    \/ \E v \in BOOLEAN : RegisterHandleChange("agreeToTerms", v)
    \/ RegisterHandleSubmit
    \/ RegisterTimer
    \/ handleConnectEmail
    \/ ConnectEmailTimer

NextLogout ==
    \/ ToggleUserMenu
    \/ DashHandleLogout
    \/ LogoutYes
    \/ LogoutNo

NextView ==
    \/ ViewFetchTimer
    \/ \E v \in ViewPasswords : ViewSetPassword(v)
    \/ handlePasswordSubmit
    \/ ViewToggleEncrypted
    \/ ViewToggleReply
    \/ ViewToggleForward
    \/ \E v \in ViewTexts : ViewSetReplyMessage(v)
    \/ handleReplySubmit
    \/ \E v \in ViewTexts : ViewSetForwardRecipient(v)
    \/ handleForwardSubmit
    \/ handleDownload
    \/ DownloadTimer

NextDashboard ==
    \/ DashFetchTimer
    \/ \E tab \in DashTabs : setActiveTab(tab)
    \/ \E v \in {<<>>, S_abc} : setSearchTerm(v)
    \/ \E n \in 1..NumEmails : toggleEmailSelection(MockEmailList(Null)[n].id)
    \/ toggleSelectAll
    \/ \E n \in 1..NumEmails : handleEmailClick(MockEmailList(Null)[n].id)
    \/ handleRefresh
    \/ RefreshTimer
    \/ \E n \in 1..NumEmails : toggleStar(MockEmailList(Null)[n].id)
    \/ deleteSelectedEmails
    \/ archiveSelectedEmails
    \/ \E b \in BOOLEAN : markSelectedEmailsAs(b)
    \/ OpenCompose

NextCompose ==
    \/ \E v \in ComposeTexts : setRecipient(v)
    \/ \E v \in ComposeTexts : setSubject(v)
    \/ \E v \in ComposeTexts : setMessage(v)
    \/ setPasswordProtected
    \/ \E v \in ComposeTexts : ComposeSetPassword(v)
    \/ handleRecipientInput
    \/ handleFileChange
    \/ removeAttachment
    \/ ComposeHandleSubmit
    \/ ComposeCtrlEnter
    \/ SendTimer
    \/ handleSaveAsDraft
    \/ ComposeCtrlS
    \/ AutoSaveTimer
    \/ DraftTimer
    \/ DraftCloseTimer
    \/ DraftResetTimer
    \/ ComposeClose
    \/ \E b \in BOOLEAN : ComposeShowAddKeyModal(b)
    \/ \E v \in ComposeTexts : setNewKeyName(v)
    \/ handleGenerateNewKey
    \/ GenerateNewKeyTimer

NextSecurity ==
    \/ setTwoFactorEnabled
    \/ \E n \in {1, 2} : SecuritySetStep(n)
    \/ handleGenerateKeys
    \/ GenerateKeysTimer
    \/ \E k \in 0..MaxKeys : handleSetKeyActive(k)
    \/ confirmKeyAction
    \/ cancelKeyAction
    \/ handleComplete
    \/ CompleteTimer

NextSettings ==
    \/ \E v \in SettingsTexts : setProfileName(v)
    \/ handleSaveProfile
    \/ SaveProfileTimer
    \/ \E b \in BOOLEAN : SettingsShowAddKeyModal(b)
    \/ \E v \in SettingsTexts : setKeyName(v)
    \/ handleGenerateKey
    \/ GenerateKeyTimer
    \/ \E b \in BOOLEAN : SettingsShowAddAccountModal(b)
    \/ handleAddAccount

\* Every operation of the application (the slices below take parts of it)
Next ==
    \/ NextApp
    \/ NextLogin
    \/ NextRegister
    \/ NextLogout
    \/ NextDashboard
    \/ NextCompose
    \/ NextView
    \/ NextSecurity
    \/ NextSettings
    \/ \E p \in Paths : Navigate(p, "")

Spec == Init /\ [][Next]_vars

\* The session: startup load, the demo login, registration, logout, reload
SessionPaths == {"/", "/register"}

\* Filling in the registration form, field after field from the top, with
\* values that pass validateForm
RegisterFill ==
    \/ RegisterHandleChange("name", S_Al)
    \/ register.formData.name # <<>> /\ RegisterHandleChange("email", S_AlEmail)
    \/ register.formData.email # <<>> /\ RegisterHandleChange("password", S_Abcdefg1)
    \/ register.formData.password # <<>>
         /\ RegisterHandleChange("confirmPassword", S_Abcdefg1)
    \/ register.formData.confirmPassword # <<>> /\ RegisterHandleChange("agreeToTerms", TRUE)

NextSession ==
    \/ MountEffects
    \/ StartupTimer
    \/ Reload
    \/ handleDemoLogin
    \/ DemoLoginTimer
    \/ RegisterFill
    \/ RegisterHandleSubmit
    \/ RegisterTimer
    \/ DashFetchTimer
    \/ NextLogout
    \/ \E p \in SessionPaths : Navigate(p, "")

SpecSession == Init /\ [][NextSession]_vars

\* Dark mode and startup: the root component with the demo login and logout
DarkPaths == {"/", "/dashboard", "/login"}

NextDarkMode ==
    \/ NextApp
    \/ handleDemoLogin
    \/ DemoLoginTimer
    \/ DashFetchTimer
    \/ NextLogout
    \/ \E p \in DarkPaths : Navigate(p, "")

SpecDarkMode == Init /\ [][NextDarkMode]_vars

\* Startup over whatever localStorage holds: any text under "user" (none, the
\* empty string, the text null, a text that is not JSON, a stored User) and
\* any text under "darkMode"
StoredUsers ==
    {Absent, Item([kind |-> "empty"]), Item([kind |-> "null"]), Item([kind |-> "invalid"]),
     Item(JSONstringify(LandingDemoUser))}

StoredDarkModes == {Absent, Item("true"), Item("false"), Item("yes")}

InitAnyStorage ==
    /\ app = AppInit
    /\ localStorage \in [user : StoredUsers, darkMode : StoredDarkModes]
    /\ bodyDark = FALSE
    /\ route = Route("/", "")
    /\ landing = LandingInit /\ login = LoginInit /\ register = RegisterInit
    /\ security = SecurityInit /\ dash = DashInit /\ compose = ComposeInit
    /\ view = ViewInit /\ settings = SettingsInit(Null)
    /\ timers = <<>>
    /\ toasted = <<>>
    /\ atLoad = localStorage.darkMode

SpecAnyStorage == InitAnyStorage /\ [][NextDarkMode]_vars

\* Registration, with passwords that match and that differ
RegisterPasswordsTyped == {<<>>, S_Abcdefg1, S_abcdefgh}

NextRegistration ==
    \/ MountEffects
    \/ StartupTimer
    \/ RegisterHandleChange("name", S_Al)
    \/ RegisterHandleChange("email", S_AlEmail)
    \/ \E v \in RegisterPasswordsTyped : RegisterHandleChange("password", v)
    \/ \E v \in RegisterPasswordsTyped : RegisterHandleChange("confirmPassword", v)
    \/ \E v \in BOOLEAN : RegisterHandleChange("agreeToTerms", v)
    \/ RegisterHandleSubmit
    \/ RegisterTimer
    \/ handleConnectEmail
    \/ ConnectEmailTimer
    \/ Navigate("/register", "")

SpecRegister == Init /\ [][NextRegistration]_vars

\* The mailbox: the Dashboard's bulk operations and the Compose modal
NextMail ==
    \/ MountEffects
    \/ StartupTimer
    \/ handleDemoLogin
    \/ DemoLoginTimer
    \/ DashFetchTimer
    \/ \E id \in {"1", "2"} : toggleEmailSelection(id)
    \/ deleteSelectedEmails
    \/ archiveSelectedEmails
    \/ OpenCompose
    \/ setRecipient(S_abc)
    \/ setSubject(S_abc)
    \/ setMessage(S_abc)
    \/ ComposeHandleSubmit
    \/ SendTimer
    \/ handleSaveAsDraft
    \/ DraftTimer
    \/ DraftCloseTimer
    \/ DraftResetTimer
    \/ AutoSaveTimer
    \/ ComposeClose

SpecMail == Init /\ [][NextMail]_vars

\* The forms that can reject their input: login, register, compose, the
\* view-email password, reply and forward, and the two key-name forms, each
\* filled in so that its submit is rejected (and, for the view-email
\* password, reply and forward, accepted as well)
FormPaths == {"/login", "/register", "/compose", "/settings"}

NextForms ==
    \/ MountEffects
    \/ StartupTimer
    \/ \E p \in FormPaths : Navigate(p, "")
    \/ Navigate("/view-email", "1")
    \/ LoginSetEmail(S_AlEmail)
    \/ LoginHandleSubmit
    \/ RegisterHandleChange("name", S_Al)
    \/ RegisterHandleChange("email", S_AlEmail)
    \/ RegisterHandleChange("password", S_Abcdefg1)
    \/ RegisterHandleChange("confirmPassword", S_abcdefgh)
    \/ RegisterHandleChange("agreeToTerms", TRUE)
    \/ RegisterHandleSubmit
    \/ setRecipient(S_abc)
    \/ \E v \in {S_Blank, S_abc} : setSubject(v)
    \/ ComposeHandleSubmit
    \/ ComposeShowAddKeyModal(TRUE)
    \/ setNewKeyName(S_Blank)
    \/ handleGenerateNewKey
    \/ ViewFetchTimer
    \/ \E v \in {S_secureemail, S_securemail} : ViewSetPassword(v)
    \/ handlePasswordSubmit
    \/ ViewToggleReply
    \/ ViewToggleForward
    \/ \E v \in {S_Blank, S_abc} : ViewSetReplyMessage(v)
    \/ handleReplySubmit
    \/ \E v \in {S_Blank, S_abc} : ViewSetForwardRecipient(v)
    \/ handleForwardSubmit
    \/ SettingsShowAddKeyModal(TRUE)
    \/ handleGenerateKey

SpecForms == Init /\ [][NextForms]_vars

\* The session user against the operations of every screen behind the login
FramePaths == {"/dashboard", "/settings", "/security-setup", "/compose"}

NextFrame ==
    \/ MountEffects
    \/ StartupTimer
    \/ handleDemoLogin
    \/ DemoLoginTimer
    \/ NextLogout
    \/ \E p \in FramePaths : Navigate(p, "")
    \/ DashFetchTimer
    \/ toggleEmailSelection("1")
    \/ deleteSelectedEmails
    \/ archiveSelectedEmails
    \/ \E b \in BOOLEAN : markSelectedEmailsAs(b)
    \/ toggleStar("1")
    \/ handleEmailClick("2")
    \/ ViewFetchTimer
    \/ ViewSetPassword(S_secureemail)
    \/ handlePasswordSubmit
    \/ ViewToggleReply
    \/ ViewSetReplyMessage(S_abc)
    \/ handleReplySubmit
    \/ setRecipient(S_abc)
    \/ setSubject(S_abc)
    \/ setMessage(S_abc)
    \/ ComposeHandleSubmit
    \/ SendTimer
    \/ setProfileName(S_abc)
    \/ handleSaveProfile
    \/ SaveProfileTimer
    \/ SettingsShowAddKeyModal(TRUE)
    \/ setKeyName(S_abc)
    \/ handleGenerateKey
    \/ GenerateKeyTimer
    \/ setTwoFactorEnabled
    \/ \E n \in {1, 2} : SecuritySetStep(n)
    \/ handleGenerateKeys
    \/ GenerateKeysTimer
    \/ \E k \in 0..MaxKeys : handleSetKeyActive(k)
    \/ confirmKeyAction
    \/ cancelKeyAction
    \/ handleComplete
    \/ CompleteTimer

SpecFrame == Init /\ [][NextFrame]_vars

\* The ViewEmail screen, opened from a first visit by its URL
ViewIds == {"1", "2"}

NextViewEmail ==
    \/ MountEffects
    \/ StartupTimer
    \/ Reload
    \/ NextView
    \/ \E id \in ViewIds : Navigate("/view-email", id)
    \/ Navigate("/dashboard", "")

SpecViewEmail == Init /\ [][NextViewEmail]_vars

\* The login screen: the form and the social login flow
NextSocial ==
    \/ MountEffects
    \/ StartupTimer
    \/ Navigate("/login", "")
    \/ LoginSetEmail(S_AlEmail)
    \/ LoginSetPassword(S_abcdefgh)
    \/ LoginHandleSubmit
    \/ LoginTimer
    \/ \E p \in SocialProviders : handleSocialLogin(p)
    \/ SocialStepTimer
    \/ SocialCompleteTimer
    \/ CloseSocialModal
    \/ DashFetchTimer

SpecSocial == Init /\ [][NextSocial]_vars

\* The timers: screens that schedule callbacks, left and closed while the
\* callbacks are pending
NextTimers ==
    \/ MountEffects
    \/ StartupTimer
    \/ handleDemoLogin
    \/ DemoLoginTimer
    \/ Navigate("/login", "")
    \/ Navigate("/dashboard", "")
    \/ Navigate("/view-email", "1")
    \/ handleSocialLogin("google")
    \/ SocialStepTimer
    \/ SocialCompleteTimer
    \/ CloseSocialModal
    \/ DashFetchTimer
    \/ ViewFetchTimer
    \/ OpenCompose
    \/ setSubject(S_abc)
    \/ setMessage(S_abc)
    \/ handleSaveAsDraft
    \/ AutoSaveTimer
    \/ DraftTimer
    \/ DraftCloseTimer
    \/ DraftResetTimer
    \/ ComposeClose

SpecTimers == Init /\ [][NextTimers]_vars

\* The login form, with every combination of empty and typed fields
NextLoginForm ==
    \/ MountEffects
    \/ StartupTimer
    \/ Navigate("/login", "")
    \/ Navigate("/", "")
    \/ \E v \in LoginEmails : LoginSetEmail(v)
    \/ \E v \in LoginPasswords : LoginSetPassword(v)
    \/ LoginHandleSubmit
    \/ LoginTimer
    \/ DashFetchTimer

SpecLoginForm == Init /\ [][NextLoginForm]_vars

\* The registration form as it may have been filled in: blank, malformed and
\* well-formed names and emails; missing, short, weak and strong passwords
ValidateNames == {<<>>, S_Blank, S_Al}
ValidateEmails == {<<>>, S_Blank, S_AlAtX, S_SpaceAfterAt, S_SpacedEmail, S_AlEmail}
ValidatePasswords == {<<>>, S_abc, S_Ab1Bang, S_abcdefgh, S_abcdefg1, S_Abcdefg1}
ValidateConfirms == {<<>>, S_abcdefgh, S_abcdefg1, S_Abcdefg1}

InitFilledForm ==
    /\ app = [AppInit EXCEPT !.loading = FALSE, !.effects = "none"]
    /\ localStorage = [user |-> Absent, darkMode |-> Item("false")]
    /\ bodyDark = FALSE
    /\ route = Route("/register", "")
    /\ landing = LandingInit /\ login = LoginInit
    /\ register \in {[RegisterInit EXCEPT !.formData = fd] :
                        fd \in [name : ValidateNames, email : ValidateEmails,
                                password : ValidatePasswords,
                                confirmPassword : ValidateConfirms,
                                agreeToTerms : BOOLEAN]}
    /\ security = SecurityInit /\ dash = DashInit /\ compose = ComposeInit
    /\ view = ViewInit /\ settings = SettingsInit(Null)
    /\ timers = <<>>
    /\ toasted = <<>>
    /\ atLoad = Absent

NextValidate ==
    \/ RegisterHandleSubmit
    \/ RegisterTimer
    \/ \E v \in BOOLEAN : RegisterHandleChange("agreeToTerms", v)

SpecValidate == InitFilledForm /\ [][NextValidate]_vars

\* The Compose form, as the Dashboard's modal and on its own route, sent by
\* the button and by the keyboard with each of its fields blank and filled
NextSend ==
    \/ MountEffects
    \/ StartupTimer
    \/ Navigate("/dashboard", "")
    \/ Navigate("/compose", "")
    \/ DashFetchTimer
    \/ OpenCompose
    \/ \E v \in {S_Blank, S_abc} : setRecipient(v)
    \/ handleRecipientInput
    \/ \E v \in ComposeTexts : setSubject(v)
    \/ \E v \in {S_Blank, S_abc} : setMessage(v)
    \/ setPasswordProtected
    \/ \E v \in {S_Blank, S_abc} : ComposeSetPassword(v)
    \/ ComposeHandleSubmit
    \/ ComposeCtrlEnter
    \/ SendTimer
    \/ ComposeClose

SpecSend == Init /\ [][NextSend]_vars

\* The demo user has clicked the first email of the loaded inbox: the route
\* is /view-email/1, the Dashboard is unmounted and ViewEmail has just mounted
AfterEmailClick ==
    /\ app = handleLogin([AppInit EXCEPT !.loading = FALSE, !.effects = "none"],
                         LandingDemoUser)
    /\ localStorage = [user |-> Item(JSONstringify(LandingDemoUser)),
                       darkMode |-> Item("false")]
    /\ bodyDark = FALSE
    /\ route = Route("/view-email", "1")
    /\ landing = LandingInit /\ login = LoginInit /\ register = RegisterInit
    /\ security = SecurityInit /\ dash = DashInit /\ compose = ComposeInit
    /\ view = ViewInit /\ settings = SettingsInit(Null)
    /\ timers = <<FetchTimer("ViewEmail", LandingDemoUser)>>
    /\ toasted = <<>>
    /\ atLoad = Absent

\* What the user can do from there short of marking an email unread
NextAfterClick ==
    \/ ViewFetchTimer
    \/ Navigate("/dashboard", "")
    \/ DashFetchTimer
    \/ \E n \in 1..NumEmails : handleEmailClick(MockEmailList(Null)[n].id)
    \/ \E tab \in {"inbox", "starred"} : setActiveTab(tab)
    \/ \E n \in 1..NumEmails : toggleStar(MockEmailList(Null)[n].id)
    \/ \E n \in 1..NumEmails : toggleEmailSelection(MockEmailList(Null)[n].id)
    \/ markSelectedEmailsAs(TRUE)
    \/ archiveSelectedEmails

SpecAfterClick == AfterEmailClick /\ [][NextAfterClick]_vars

\* The way to AfterEmailClick from the first visit
NextToClick ==
    \/ MountEffects
    \/ StartupTimer
    \/ handleDemoLogin
    \/ DemoLoginTimer
    \/ DashFetchTimer
    \/ handleEmailClick("1")

SpecToClick == Init /\ [][NextToClick]_vars

\* The bulk operations of the Dashboard on every selection of its emails,
\* in the inbox, the starred and the trash tabs
NextBulk ==
    \/ MountEffects
    \/ StartupTimer
    \/ Navigate("/dashboard", "")
    \/ DashFetchTimer
    \/ \E tab \in {"inbox", "starred", "trash"} : setActiveTab(tab)
    \/ \E n \in 1..NumEmails : toggleEmailSelection(MockEmailList(Null)[n].id)
    \/ toggleSelectAll
    \/ deleteSelectedEmails
    \/ archiveSelectedEmails
    \/ \E b \in BOOLEAN : markSelectedEmailsAs(b)

SpecBulk == Init /\ [][NextBulk]_vars

\* The list of the Dashboard under four of its tabs and under search terms that hit
\* a sender (in another case), a subject and its body, a body alone,
\* every email (a space) and none, with emails starred, unstarred and moved
\* to the trash
SearchTerms == {<<>>, S_Blank, S_DOE, S_Offer, S_board, S_zz}
SearchTabs == {"inbox", "starred", "trash", "encrypted"}

NextSearch ==
    \/ MountEffects
    \/ StartupTimer
    \/ Navigate("/dashboard", "")
    \/ DashFetchTimer
    \/ \E tab \in SearchTabs : setActiveTab(tab)
    \/ \E term \in SearchTerms : setSearchTerm(term)
    \/ \E n \in 1..NumEmails : toggleStar(MockEmailList(Null)[n].id)
    \/ toggleSelectAll
    \/ deleteSelectedEmails

SpecSearch == Init /\ [][NextSearch]_vars

\* The auto-save of an open Compose: its text and attachments edited before
\* and after the 30 s callback runs
NextAutoSave ==
    \/ MountEffects
    \/ StartupTimer
    \/ Navigate("/compose", "")
    \/ \E v \in ComposeTexts : setSubject(v)
    \/ \E v \in {<<>>, S_abc} : setMessage(v)
    \/ handleFileChange
    \/ removeAttachment
    \/ AutoSaveTimer
    \/ DraftTimer
    \/ DraftResetTimer

SpecAutoSave == Init /\ [][NextAutoSave]_vars

\* The save shortcut of an open Compose, pressed before and after each edit
NextCtrlS ==
    \/ MountEffects
    \/ StartupTimer
    \/ Navigate("/compose", "")
    \/ \E v \in {S_Blank, S_abc} : setRecipient(v)
    \/ \E v \in {S_Blank, S_abc} : setSubject(v)
    \/ setMessage(S_abc)
    \/ handleFileChange
    \/ ComposeCtrlS
    \/ AutoSaveTimer
    \/ DraftTimer
    \/ DraftCloseTimer
    \/ DraftResetTimer

SpecCtrlS == Init /\ [][NextCtrlS]_vars

\* The logout confirmation, answered on the Dashboard and after the
\* Dashboard was left, by the demo user and by a visitor who never logged in
NextConfirm ==
    \/ MountEffects
    \/ StartupTimer
    \/ handleDemoLogin
    \/ DemoLoginTimer
    \/ DashFetchTimer
    \/ \E p \in {"/", "/dashboard", "/settings"} : Navigate(p, "")
    \/ ToggleUserMenu
    \/ DashHandleLogout
    \/ LogoutYes
    \/ LogoutNo

SpecConfirm == Init /\ [][NextConfirm]_vars

\* The keys of SecuritySetup: generated, requested for activation, confirmed
\* and cancelled, also with the screen left while a generation is pending
NextKeys ==
    \/ MountEffects
    \/ StartupTimer
    \/ Navigate("/security-setup", "")
    \/ Navigate("/", "")
    \/ setTwoFactorEnabled
    \/ \E n \in {1, 2} : SecuritySetStep(n)
    \/ handleGenerateKeys
    \/ GenerateKeysTimer
    \/ \E k \in 0..MaxKeys : handleSetKeyActive(k)
    \/ confirmKeyAction
    \/ cancelKeyAction

SpecKeys == Init /\ [][NextKeys]_vars

\* Every route behind the login, visited by address with and without a
\* session, before a login and after a logout
GuardedPaths == {"/dashboard", "/compose", "/view-email", "/settings", "/security-setup"}

NextGuard ==
    \/ MountEffects
    \/ StartupTimer
    \/ handleDemoLogin
    \/ DemoLoginTimer
    \/ DashFetchTimer
    \/ ViewFetchTimer
    \/ Navigate("/", "")
    \/ \E p \in GuardedPaths : Navigate(p, IF p = "/view-email" THEN "1" ELSE "")
    \/ ToggleUserMenu
    \/ DashHandleLogout
    \/ LogoutYes
    \/ LogoutNo

SpecGuard == Init /\ [][NextGuard]_vars

\* The Compose modal of the Dashboard with a valid form, sent by the button
\* and by the keyboard, saved, closed and opened again while its callbacks
\* are pending
NextResend ==
    \/ MountEffects
    \/ StartupTimer
    \/ Navigate("/dashboard", "")
    \/ DashFetchTimer
    \/ OpenCompose
    \/ setRecipient(S_abc)
    \/ setSubject(S_abc)
    \/ setMessage(S_abc)
    \/ AutoSaveTimer
    \/ handleSaveAsDraft
    \/ DraftTimer
    \/ DraftCloseTimer
    \/ DraftResetTimer
    \/ ComposeHandleSubmit
    \/ ComposeCtrlEnter
    \/ SendTimer
    \/ ComposeClose

SpecResend == Init /\ [][NextResend]_vars

-----------------------------------------------------------------------------
(* Properties *)

S_Incorrect == Toast("error", "Incorrect password. Please try again.")
S_Decrypted == Toast("success", "Email decrypted successfully")
S_Required == Toast("error", "Password is required")

\* C1: in ViewEmail, isDecrypted becomes true only in a step of
\* handlePasswordSubmit whose password is accepted; a submit with an empty or
\* a rejected password leaves isDecrypted as it was (false before the first
\* accepted submit) and leaves the password modal open.
C1_DecryptOnlyOnAccepted ==
    [][ /\ (~view.isDecrypted /\ view'.isDecrypted)
            => /\ handlePasswordSubmit
               /\ Truthy(view.password)
               /\ toLowerCase(view.password) = S_secureemail
        /\ (handlePasswordSubmit
              /\ (~Truthy(view.password) \/ toLowerCase(view.password) # S_secureemail))
            => /\ view'.isDecrypted = view.isDecrypted
               /\ view'.showPasswordModal
               /\ toasted' \in {<<S_Required>>, <<S_Incorrect>>} ]_vars

\* A rejected submit has happened: the email is still locked, the modal open
C1_Witness ==
    /\ Screen = "ViewEmail"
    /\ view.password = S_securemail
    /\ toasted = <<S_Incorrect>>
    /\ ~view.isDecrypted
    /\ view.showPasswordModal

C3_SessionConsistent ==
    ~app.loading =>
        /\ app.isLoggedIn <=> app.currentUser # Null
        /\ app.currentUser # Null <=> localStorage.user.present
        /\ localStorage.user.present
             => localStorage.user.value = JSONstringify(app.currentUser)

\* A reload found the stored demo user and the startup load restored it
C3_Witness ==
    /\ ~app.loading
    /\ app.isLoggedIn
    /\ app.currentUser # Null
    /\ app.currentUser.encryptionKeys[1].createdAt.type = "string"
    /\ localStorage.user = Item(JSONstringify(app.currentUser))

\* C4: when the darkMode effect has run after toggleDarkMode,
\* localStorage["darkMode"] is darkMode.toString() and <body> has the class
\* "dark" exactly when darkMode is true; toggleDarkMode negates darkMode, so
\* two toggles restore it.
C4_DarkModeStored ==
    [][ /\ toggleDarkMode => (app'.darkMode = ~app.darkMode /\ app'.effects = "darkMode")
        /\ DarkModeEffect
             => /\ localStorage'.darkMode = Item(IF app'.darkMode THEN "true" ELSE "false")
                /\ bodyDark' = app'.darkMode
                /\ app'.darkMode = app.darkMode ]_vars

\* Dark mode was switched on and its effect has run
C4_Witness ==
    /\ app.darkMode
    /\ app.effects = "none"
    /\ bodyDark
    /\ localStorage.darkMode = Item("true")

\* C5 as stated: when localStorage["darkMode"] was "true" at page load, the
\* startup load ends with darkMode true and the stored value still "true".
C5_PreferenceSurvivesReload ==
    [][ (StartupTimer /\ atLoad = Item("true"))
            => (app'.darkMode /\ localStorage'.darkMode = Item("true")) ]_vars

\* C6 as stated: whatever localStorage holds, the startup load completes:
\* once the 800 ms callback has run, loading is false.
C6_StartupCompletes ==
    (app.effects # "mount" /\ \A i \in 1..Len(timers) : timers[i].kind # "startup")
        => ~app.loading

\* C7: submitting the register form with password different from
\* confirmPassword sets errors.confirmPassword to 'Passwords do not match' and
\* creates no account, whatever the other fields hold: onLogin is not called
\* (the root state is unchanged, no callback is scheduled), step stays 1,
\* isLoading stays false and localStorage is unchanged.
C7_MismatchCreatesNoAccount ==
    [][ (RegisterHandleSubmit
           /\ register.formData.password # register.formData.confirmPassword)
          => /\ "confirmPassword" \in DOMAIN register'.errors
             /\ register'.errors["confirmPassword"] = "Passwords do not match"
             /\ register'.step = 1
             /\ ~register'.isLoading
             /\ register'.formData = register.formData
             /\ app' = app
             /\ localStorage' = localStorage
             /\ timers' = timers
             /\ toasted' = <<>> ]_vars

\* A form valid but for two different non-empty passwords has been submitted
C7_Witness ==
    /\ Screen = "Register"
    /\ register.formData = [name |-> S_Al, email |-> S_AlEmail, password |-> S_Abcdefg1,
                            confirmPassword |-> S_abcdefgh, agreeToTerms |-> TRUE]
    /\ DOMAIN register.errors = {"confirmPassword"}
    /\ register.errors["confirmPassword"] = "Passwords do not match"
    /\ register.step = 1 /\ ~register.isLoading
    /\ ~app.isLoggedIn /\ localStorage.user = Absent
    /\ timers = <<>>

HasSuccessToast(ts) == \E i \in 1..Len(ts) : ts[i].kind = "success"
HasErrorToast(ts) == \E i \in 1..Len(ts) : ts[i].kind = "error"

\* C8 as stated: saving a draft, sending, archiving and deleting each change
\* the emails array, and each raises its toast only in a setTimeout callback,
\* never in the handler itself.
C8_MutateAndDelayedToast ==
    [][ /\ (deleteSelectedEmails \/ archiveSelectedEmails
              \/ ComposeHandleSubmit \/ handleSaveAsDraft)
            => ~HasSuccessToast(toasted')
        /\ (SendTimer \/ DraftTimer) => dash'.emails # dash.emails ]_vars

\* C8, amended: deleting and archiving move exactly the selected emails to
\* "trash" / "archived" and raise their toast in the handler itself, with no
\* setTimeout; sending and saving a draft never change the emails array, and
\* raise their success toast only in their setTimeout callback (1500 ms and
\* 800 ms after the handler).
C8_BulkImmediateComposeDelayed ==
    [][ /\ (deleteSelectedEmails \/ archiveSelectedEmails)
            => /\ HasSuccessToast(toasted')
               /\ timers' = timers
               /\ Len(dash'.emails) = Len(dash.emails)
               /\ \A i \in 1..Len(dash.emails) :
                     IF SeqIncludes(dash.selectedEmails, dash.emails[i].id)
                     THEN /\ dash'.emails[i].folder \in {"trash", "archived"}
                          /\ dash'.emails[i].folder = "trash" <=> deleteSelectedEmails
                     ELSE dash'.emails[i] = dash.emails[i]
        /\ (ComposeHandleSubmit \/ handleSaveAsDraft)
            => (dash'.emails = dash.emails /\ ~HasSuccessToast(toasted'))
        /\ SendTimer
            => /\ dash'.emails = dash.emails
               /\ toasted' = <<Toast("success", "Email sent securely!")>>
        /\ DraftTimer
            => /\ dash'.emails = dash.emails
               /\ toasted' \in {<<Toast("success", "Email saved as draft")>>,
                                <<Toast("plain", "Draft saved automatically")>>} ]_vars

\* One of two inbox emails was selected and deleted: it is in the trash, the
\* other is untouched, and the toast of the handler is up
C8_Witness ==
    /\ Screen = "Dashboard"
    /\ Len(dash.emails) >= 2
    /\ dash.emails[1].folder = "trash"
    /\ dash.emails[2].folder = "inbox"
    /\ dash.selectedEmails = <<>>
    /\ toasted = <<Toast("success", "${selectedEmails.length} email(s) moved to trash")>>

\* A step of handleLogin (from the landing page's demo login, the login form
\* or registration) or of handleLogout (the logout confirmation)
LoginOrLogoutStep == DemoLoginTimer \/ LoginTimer \/ RegisterTimer \/ LogoutYes

\* C9: once the app is loaded, localStorage["user"] and currentUser are
\* changed only by handleLogin and handleLogout: the operations of Settings,
\* SecuritySetup, Dashboard, Compose and ViewEmail leave both unchanged; the
\* session user's twoFactorEnabled stays false and its encryptionKeys stay
\* the single default key.
C9_OnlyLoginLogoutChangeUser ==
    /\ [][ (~app.loading /\ ~app'.loading
              /\ (app'.currentUser # app.currentUser
                    \/ app'.isLoggedIn # app.isLoggedIn
                    \/ localStorage'.user # localStorage.user))
             => LoginOrLogoutStep ]_vars
    /\ [](app.currentUser # Null
            => /\ ~app.currentUser.twoFactorEnabled
               /\ Len(app.currentUser.encryptionKeys) = 1
               /\ app.currentUser.encryptionKeys[1].id = "default-key")

\* Logged in, with two-factor ticked and a generated key made the active one
\* in SecuritySetup
C9_Witness ==
    /\ Screen = "SecuritySetup"
    /\ app.currentUser # Null
    /\ security.twoFactorEnabled
    /\ Len(security.keys) = 2
    /\ security.keys[2].isActive
    /\ security.activeKeyId = 1
    /\ ~app.currentUser.twoFactorEnabled
    /\ localStorage.user = Item(JSONstringify(app.currentUser))

\* The rejected submits of the forms
LoginRejected == LoginHandleSubmit /\ (login.email = <<>> \/ login.password = <<>>)
RegisterRejected ==
    RegisterHandleSubmit /\ register.formData.password # register.formData.confirmPassword
ComposeRejected ==
    ComposeHandleSubmit
      /\ (trim(compose.subject) = <<>> \/ trim(compose.message) = <<>>
            \/ (compose.recipients = <<>> /\ trim(compose.recipient) = <<>>))
ViewPasswordRejected ==
    handlePasswordSubmit /\ toLowerCase(view.password) # S_secureemail
ReplySubmitRejected == handleReplySubmit /\ trim(view.replyMessage) = <<>>
ForwardSubmitRejected == handleForwardSubmit /\ trim(view.forwardRecipient) = <<>>
SettingsKeyNameRejected == handleGenerateKey /\ settings.keyName = <<>>
ComposeKeyNameRejected == handleGenerateNewKey /\ trim(compose.newKeyName) = <<>>

\* C10 as stated: every rejected input of the login, register, compose,
\* view-email password, reply, forward and key-name flows raises a toast
\* error and sets no other error state.
C10_FailuresOnlyToast ==
    [][ (LoginRejected \/ RegisterRejected \/ ComposeRejected \/ ViewPasswordRejected
           \/ ReplySubmitRejected \/ ForwardSubmitRejected
           \/ SettingsKeyNameRejected \/ ComposeKeyNameRejected)
          => /\ HasErrorToast(toasted')
             /\ login'.error = login.error
             /\ register'.errors = register.errors ]_vars

\* C10, amended: a rejected input of the compose, view-email password, reply,
\* forward and key-name flows raises exactly one toast error and changes no
\* state of its component; a rejected login instead sets the component's
\* `error` message and a rejected registration its per-field `errors`, both
\* shown inline and without any toast.
C10_ToastOrInlineError ==
    [][ /\ (ComposeRejected \/ ViewPasswordRejected \/ ReplySubmitRejected
              \/ ForwardSubmitRejected \/ SettingsKeyNameRejected \/ ComposeKeyNameRejected)
            => /\ Len(toasted') = 1 /\ toasted'[1].kind = "error"
               /\ compose' = compose /\ view' = view /\ settings' = settings
        /\ LoginRejected
            => /\ toasted' = <<>>
               /\ login'.error \in {"Email is required", "Password is required"}
               /\ ~login'.isLoading
        /\ RegisterRejected
            => /\ toasted' = <<>>
               /\ "confirmPassword" \in DOMAIN register'.errors
               /\ ~register'.isLoading ]_vars

\* A login without a password has been rejected: the message is in the
\* component's error state and no toast is up
C10_Witness ==
    /\ Screen = "Login"
    /\ login.email = S_AlEmail /\ login.password = <<>>
    /\ login.error = "Password is required"
    /\ toasted = <<>>

\* C12 as stated: in a social login flow socialStep goes 0, 1, 2, 3 in
\* increasing order (a step callback leaves it or raises it by one); the flow
\* completes only after step 3 has been reached, with the modal still shown
\* on the login screen and nobody logged in yet; the completion closes the
\* modal, logs in the demo user of the provider that was chosen and goes to
\* /dashboard.
C12_SocialFlowInOrder ==
    [][ /\ SocialStepTimer
            => login'.socialStep \in {login.socialStep, login.socialStep + 1}
        /\ SocialCompleteTimer
            => /\ Screen = "Login"
               /\ login.socialStep = SocialSteps - 1
               /\ login.showSocialModal
               /\ app.currentUser = Null
               /\ app'.currentUser = SocialUser(login.selectedProvider)
               /\ app'.isLoggedIn
               /\ route'.path = "/dashboard" ]_vars

\* The kinds of callback and, for each, the step in which it runs
TimerKinds ==
    {"startup", "demoLogin", "login", "socialStep", "socialComplete", "register",
     "connectEmail", "dashFetch", "refresh", "viewFetch", "download", "send", "draft",
     "draftClose", "draftReset", "autosave", "genKey", "generateKeys", "complete",
     "saveProfile", "settingsGenKey"}

Runs(k) ==
    CASE k = "startup" -> StartupTimer
      [] k = "demoLogin" -> DemoLoginTimer
      [] k = "login" -> LoginTimer
      [] k = "socialStep" -> SocialStepTimer
      [] k = "socialComplete" -> SocialCompleteTimer
      [] k = "register" -> RegisterTimer
      [] k = "connectEmail" -> ConnectEmailTimer
      [] k = "dashFetch" -> DashFetchTimer
      [] k = "refresh" -> RefreshTimer
      [] k = "viewFetch" -> ViewFetchTimer
      [] k = "download" -> DownloadTimer
      [] k = "send" -> SendTimer
      [] k = "draft" -> DraftTimer
      [] k = "draftClose" -> DraftCloseTimer
      [] k = "draftReset" -> DraftResetTimer
      [] k = "autosave" -> AutoSaveTimer
      [] k = "genKey" -> GenerateNewKeyTimer
      [] k = "generateKeys" -> GenerateKeysTimer
      [] k = "complete" -> CompleteTimer
      [] k = "saveProfile" -> SaveProfileTimer
      [] k = "settingsGenKey" -> GenerateKeyTimer

Pending(ts, k) == Len(SelectSeq(ts, LAMBDA t : t.kind = k))

\* Of the callbacks of kind k pending before the step, all are still pending
\* after it but the one the step ran
KeepsPending(k) ==
    Pending(timers', k) >= Pending(timers, k) - (IF Runs(k) THEN 1 ELSE 0)

\* C11 as stated: no scheduled timer is ever cancelled, the Compose auto-save
\* timer included: a pending callback leaves the timer list only by running.
C11_NoTimerCancelled == [][ \A k \in TimerKinds : KeepsPending(k) ]_vars

\* C11, amended: the only timer ever cancelled is the Compose auto-save timer.
\* Every other pending callback stays pending until it runs, also when its
\* component unmounts or its modal is closed; the auto-save timer is cleared
\* exactly when a dependency of its effect (recipient, subject, message,
\* recipients, formTouched) changes, in which case it is set anew for the new
\* values, or when Compose unmounts; at most one auto-save timer is pending.
C11_OnlyAutoSaveCleared ==
    /\ [][ /\ \A k \in TimerKinds \ {"autosave"} : KeepsPending(k)
           /\ ~KeepsPending("autosave")
                => \/ ~ComposeMounted'
                   \/ AutoSaveDeps(compose') # AutoSaveDeps(compose)
           /\ (ComposeMounted /\ ComposeMounted'
                 /\ AutoSaveDeps(compose') # AutoSaveDeps(compose)
                 /\ compose'.formTouched)
                => \E i \in 1..Len(timers') :
                      /\ timers'[i].kind = "autosave"
                      /\ timers'[i].data.deps = AutoSaveDeps(compose') ]_vars
    /\ [](Pending(timers, "autosave") <= 1)

\* The subject and then the message were typed: the auto-save timer set for
\* the subject alone is gone, the one pending was set for both; and the
\* 3000 ms callback of a Compose window that was closed is still pending
C11_Witness ==
    /\ ComposeMounted
    /\ compose.subject = S_abc /\ compose.message = S_abc
    /\ Pending(timers, "autosave") = 1
    /\ \E i \in 1..Len(timers) :
          /\ timers[i].kind = "autosave"
          /\ timers[i].data.deps = AutoSaveDeps(compose)
    /\ \E i \in 1..Len(timers) : timers[i].kind = "draftReset" /\ ~timers[i].alive

\* C13: a login submit with an empty email sets the error 'Email is
\* required', otherwise with an empty password 'Password is required', and in
\* both cases isLoading ends false, no timer is started and onLogin is not
\* called; with both fields non-empty, whatever they hold, one callback is
\* scheduled, and when it runs onLogin is called once with user.email the
\* email that was submitted, isLoading is false and the app is at /dashboard.
C13_LoginSubmit ==
    [][ /\ (LoginHandleSubmit /\ (login.email = <<>> \/ login.password = <<>>))
            => /\ login'.error = IF login.email = <<>> THEN "Email is required"
                                 ELSE "Password is required"
               /\ ~login'.isLoading
               /\ timers' = timers
               /\ app' = app /\ localStorage' = localStorage /\ route' = route
        /\ (LoginHandleSubmit /\ login.email # <<>> /\ login.password # <<>>)
            => /\ login'.isLoading /\ login'.error = ""
               /\ timers' = Append(timers, timers'[Len(timers')])
               /\ timers'[Len(timers')].kind = "login"
               /\ timers'[Len(timers')].data.email = login.email
               /\ app' = app /\ localStorage' = localStorage /\ route' = route
        /\ LoginTimer
            => \E i \in 1..Len(timers) :
                  /\ timers[i].kind = "login"
                  /\ Pending(timers', "login") = Pending(timers, "login") - 1
                  /\ app'.isLoggedIn
                  /\ app'.currentUser.email = timers[i].data.email
                  /\ localStorage'.user = Item(JSONstringify(app'.currentUser))
                  /\ route' = Route("/dashboard", "")
                  /\ ~login'.isLoading ]_vars

\* The form was submitted with an email and a password, and its callback has
\* logged that email in
C13_Witness ==
    /\ Screen = "Dashboard"
    /\ route = Route("/dashboard", "")
    /\ app.isLoggedIn
    /\ app.currentUser.id = "demo-user"
    /\ app.currentUser.email = S_AlEmail
    /\ app.currentUser.password = S_Abcdefg1
    /\ toasted = <<Toast("success", "Login successful!"), handleLoginToast>>

\* The fields of the registration form that pass, as C14 words them
StrengthCriteria(password) ==
    {c \in {"length", "upper", "lower", "digit", "other"} :
        CASE c = "length" -> Len(password) >= 8
          [] c = "upper" -> \E i \in 1..Len(password) : IsUpper(password[i])
          [] c = "lower" -> \E i \in 1..Len(password) : IsLower(password[i])
          [] c = "digit" -> \E i \in 1..Len(password) : IsDigit(password[i])
          [] c = "other" ->
                \E i \in 1..Len(password) :
                    ~IsUpper(password[i]) /\ ~IsLower(password[i]) /\ ~IsDigit(password[i])}

NoSpaceRun(s, a, b) == a <= b /\ \A k \in a..b : s[k] # " "

FieldPasses(fd, f) ==
    CASE f = "name" -> \E i \in 1..Len(fd.name) : fd.name[i] # " "
      [] f = "email" ->
            \E at, dot \in 1..Len(fd.email) :
                /\ fd.email[at] = "@" /\ fd.email[dot] = "."
                /\ NoSpaceRun(fd.email, at - 1, at - 1) /\ at > 1
                /\ NoSpaceRun(fd.email, at + 1, dot - 1)
                /\ NoSpaceRun(fd.email, dot + 1, dot + 1) /\ dot < Len(fd.email)
      [] f = "password" ->
            Len(fd.password) >= 8 /\ Cardinality(StrengthCriteria(fd.password)) >= 3
      [] f = "confirmPassword" -> fd.password = fd.confirmPassword
      [] f = "agreeToTerms" -> fd.agreeToTerms

\* C14: validateForm returns true (the submit goes on: isLoading is set and
\* the account callback is scheduled) exactly when the name is not blank, the
\* email matches non-space@non-space.non-space, the password has 8 characters
\* or more and meets 3 or more of the 5 strength criteria, the two passwords
\* are equal and the terms are agreed to; checkPasswordStrength is the number
\* of criteria met; and errors then holds a message for each field that
\* fails and for no other.
C14_ValidateForm ==
    [][ RegisterHandleSubmit =>
          LET fd == register.formData
              failing == {f \in RegisterFields : ~FieldPasses(fd, f)}
          IN /\ checkPasswordStrength(fd.password) = Cardinality(StrengthCriteria(fd.password))
             /\ checkPasswordStrength(fd.password) \in 0..5
             /\ register'.isLoading <=> failing = {}
             /\ Pending(timers', "register")
                  = Pending(timers, "register") + (IF failing = {} THEN 1 ELSE 0)
             /\ DOMAIN register'.errors = failing
             /\ \A f \in failing : register'.errors[f] # "" ]_vars

\* Eight lower-case letters in both password fields of an otherwise valid
\* form: long enough, but only two criteria met, and the one error is the
\* password's
C14_Witness ==
    /\ Screen = "Register"
    /\ register.formData = [name |-> S_Al, email |-> S_SpacedEmail, password |-> S_abcdefgh,
                            confirmPassword |-> S_abcdefgh, agreeToTerms |-> TRUE]
    /\ DOMAIN register.errors = {"password"}
    /\ register.errors["password"] = "Password is too weak"
    /\ ~register.isLoading
    /\ timers = <<>>

\* The checks of a send in the order C15 gives them: the number of the first
\* that fails, 0 when none does
IsBlank(s) == \A i \in 1..Len(s) : s[i] = " "

FirstFailingCheck(c) ==
    CASE c.recipients = <<>> /\ IsBlank(c.recipient) -> 1
      [] OTHER ->
    CASE IsBlank(c.subject) -> 2
      [] OTHER ->
    CASE IsBlank(c.message) -> 3
      [] OTHER ->
    CASE c.passwordProtected /\ IsBlank(c.password) -> 4
      [] OTHER -> 0

CheckToast(n) ==
    CASE n = 1 -> "Please enter at least one recipient"
      [] n = 2 -> "Please enter a subject"
      [] n = 3 -> "Please enter a message"
      [] n = 4 -> "Please enter a password"

\* C15: a send (by the button or by Ctrl+Enter) is rejected by the first
\* failing check of: a recipient, the subject, the message, the password when
\* passwordProtected.  A rejected send raises exactly that check's toast,
\* leaves isSending false, schedules nothing and does not call onClose; an
\* accepted send sets isSending and schedules the callback that resets it and
\* calls onClose.
C15_SendChecks ==
    [][ /\ (ComposeHandleSubmit \/ ComposeCtrlEnter) =>
            LET n == FirstFailingCheck(compose)
            IN IF n # 0
               THEN /\ toasted' = <<Toast("error", CheckToast(n))>>
                    /\ ~compose'.isSending
                    /\ timers' = timers
                    /\ dash'.showComposeModal = dash.showComposeModal
               ELSE /\ compose'.isSending
                    /\ Pending(timers', "send") = Pending(timers, "send") + 1
        /\ SendTimer =>
            /\ ~compose'.isSending
            /\ Screen = "Dashboard" /\ Pending(timers, "send") = 1 => ~dash'.showComposeModal
      ]_vars

\* C16: the email that was clicked (id "1") is read, and is not among the
\* unread that are counted, whenever the Dashboard shows its emails again.
\* Every state of SpecAfterClick is after handleEmailClick("1"), and no
\* action of it marks an email unread.
C16_ClickedEmailIsRead ==
    Screen = "Dashboard" /\ dash.emails # <<>> =>
        /\ \A i \in 1..Len(dash.emails) : dash.emails[i].id = "1" => dash.emails[i].read
        /\ getUnreadCount(dash, "inbox")
              = Len(SelectSeq(dash.emails,
                              LAMBDA e : e.id # "1" /\ e.folder = "inbox" /\ ~e.read))

\* email.passwordProtected, an optional field of Email: absent is falsy
PasswordProtectedOf(email) ==
    "passwordProtected" \in DOMAIN email /\ email.passwordProtected

\* C17: the email that ViewEmail shows has the id of the route's :id and the
\* sender, subject and password protection of the Dashboard's entry of that
\* id (the entry that was clicked).
C17_ViewShowsClickedEmail ==
    ViewCard =>
        /\ view.email.id = route.id
        /\ \A n \in 1..NumEmails :
              LET entry == MockEmails(app.currentUser)[n]
              IN entry.id = route.id =>
                    /\ view.email.from = entry.from
                    /\ view.email.subject = entry.subject
                    /\ PasswordProtectedOf(view.email) = PasswordProtectedOf(entry)

\* The emails after a bulk operation that sets one field of the selected:
\* the same emails in the same order, the selected with that field set and
\* nothing else changed, the others untouched
OnlyFieldOfSelected(field, value) ==
    /\ Len(dash'.emails) = Len(dash.emails)
    /\ \A i \in 1..Len(dash.emails) :
          LET old == dash.emails[i]
              new == dash'.emails[i]
          IN /\ DOMAIN new = DOMAIN old
             /\ \A f \in DOMAIN old \ {field} : new[f] = old[f]
             /\ new[field] = IF \E k \in 1..Len(dash.selectedEmails) :
                                      dash.selectedEmails[k] = old.id
                             THEN value ELSE old[field]

SelectionCleared ==
    /\ dash'.selectedEmails = <<>>
    /\ ~dash'.isSelectAll
    /\ \A f \in DOMAIN dash \ {"emails", "selectedEmails", "isSelectAll"} : dash'[f] = dash[f]

\* C18: deleteSelectedEmails, archiveSelectedEmails and markSelectedEmailsAs
\* set the folder ("trash", "archived") or the read flag of exactly the
\* selected emails; no other field and no other email changes, no email is
\* removed (one already in the trash stays there), and afterwards
\* selectedEmails is empty and isSelectAll is false.
C18_BulkOperations ==
    [][ /\ deleteSelectedEmails => OnlyFieldOfSelected("folder", "trash") /\ SelectionCleared
        /\ archiveSelectedEmails => OnlyFieldOfSelected("folder", "archived") /\ SelectionCleared
        /\ \A b \in BOOLEAN :
              markSelectedEmailsAs(b) => OnlyFieldOfSelected("read", b) /\ SelectionCleared
      ]_vars

\* The last step was a delete on the trash tab, and every email is still
\* there, in the trash, with nothing selected
C18_Witness ==
    /\ Screen = "Dashboard"
    /\ dash.activeTab = "trash"
    /\ Len(dash.emails) = NumEmails
    /\ \A i \in 1..Len(dash.emails) : dash.emails[i].folder = "trash"
    /\ dash.selectedEmails = <<>> /\ ~dash.isSelectAll
    /\ toasted = <<Toast("success", "${selectedEmails.length} email(s) moved to trash")>>

\* The letters of s in lower case, and whether term occurs in text when both
\* are lower-cased
SameLetter(a, b) ==
    \/ a = b
    \/ \E k \in 1..26 : {a, b} = {Upper[k], Lower[k]}

OccursIgnoringCase(term, text) ==
    \E start \in 1..(Len(text) - Len(term) + 1) :
        \A j \in 1..Len(term) : SameLetter(term[j], text[start + j - 1])

PassesFilters(d, e) ==
    /\ IF d.activeTab = "starred" THEN e.starred ELSE e.folder = d.activeTab
    /\ d.searchTerm # <<>> =>
          \/ OccursIgnoringCase(d.searchTerm, e.subject)
          \/ OccursIgnoringCase(d.searchTerm, e.from)
          \/ OccursIgnoringCase(d.searchTerm, EmailBody(e.id))

\* C19: filteredEmails is the emails that pass the tab filter (starred when
\* the tab is "starred", whatever the folder; otherwise folder = activeTab)
\* and, when searchTerm is not empty, contain the lower-cased term in the
\* lower-cased subject, sender or body, in the order of emails.
C19_FilteredEmails ==
    Screen = "Dashboard" =>
        LET shown == filteredEmails(dash)
            passing == {i \in 1..Len(dash.emails) : PassesFilters(dash, dash.emails[i])}
        IN /\ Len(shown) = Cardinality(passing)
           /\ \A i \in passing : \E k \in 1..Len(shown) : shown[k] = dash.emails[i]
           /\ \A k, l \in 1..Len(shown) :
                 k < l => \E i, j \in passing :
                             i < j /\ shown[k] = dash.emails[i] /\ shown[l] = dash.emails[j]

\* The starred tab with the search term "DOE": email 1, starred and in the
\* trash, is listed by its sender john.doe@example.com; email 2 is not
C19_Witness ==
    /\ Screen = "Dashboard"
    /\ dash.activeTab = "starred" /\ dash.searchTerm = S_DOE
    /\ Len(dash.emails) = NumEmails
    /\ dash.emails[1].folder = "trash" /\ dash.emails[1].starred
    /\ dash.emails[2].starred
    /\ EmailIds(filteredEmails(dash)) = <<"1">>

\* A change of the content of the open, touched Compose
ContentChange ==
    /\ ComposeMounted /\ compose.formTouched
    /\ ComposeMounted'
    /\ <<compose.recipient, compose.subject, compose.message, compose.recipients,
         compose.attachments>>
         # <<compose'.recipient, compose'.subject, compose'.message, compose'.recipients,
             compose'.attachments>>

\* C20: in an open, touched Compose an auto-save is due within 30 s of every
\* change of content, of the attachments too; a change does not put off the
\* auto-save that is already due (the pending callback keeps its place); and
\* when the auto-save callback runs, the next one is scheduled.
C20_AutoSaveRecurs ==
    [][ /\ ContentChange => Pending(timers', "autosave") >= 1
        /\ ContentChange =>
              \A i \in 1..Len(timers) :
                  timers[i].kind = "autosave" =>
                      i <= Len(timers') /\ timers'[i] = timers[i]
        /\ AutoSaveTimer /\ ComposeMounted => Pending(timers', "autosave") >= 1
      ]_vars

\* C21: in every state of an open Compose, Ctrl/Cmd+S starts a draft save
\* (sets draftSaving and schedules the callback that sets draftSaved) when
\* the form has been touched, also right after the first edit and after an
\* attachment-only change, and does nothing when it has not.
C21_SaveShortcut ==
    ComposeMounted => (CtrlSStarts(compose) <=> compose.formTouched)

SessionOf(a, ls) == <<a.isLoggedIn, a.currentUser, ls.user>>

\* C22: Log out in the user menu only asks (the session and the route stay
\* as they are), No leaves isLoggedIn, currentUser and localStorage["user"]
\* intact, and Yes, and no other step, ends the session: it clears the three
\* and navigates to "/", which then renders the LandingPage.
C22_LogoutNeedsConfirmation ==
    [][ /\ DashHandleLogout \/ LogoutNo =>
            /\ SessionOf(app', localStorage') = SessionOf(app, localStorage)
            /\ route' = route
        /\ DashHandleLogout => app'.logoutConfirm
        /\ LogoutYes =>
            /\ SessionOf(app', localStorage') = <<FALSE, Null, Absent>>
            /\ route' = Route("/", "")
            /\ Screen' = "LandingPage"
        /\ SessionOf(app', localStorage') # SessionOf(app, localStorage)
              /\ SessionOf(app', localStorage') = <<FALSE, Null, Absent>> => LogoutYes
      ]_vars

\* Yes has been answered: the landing page, and no session
C22_Witness ==
    /\ Screen = "LandingPage"
    /\ route = Route("/", "")
    /\ SessionOf(app, localStorage) = <<FALSE, Null, Absent>>
    /\ ~app.logoutConfirm
    /\ toasted = <<handleLogoutToast>>

ActiveKeys(sec) == {k \in 1..Len(sec.keys) : sec.keys[k].isActive}

\* The generation callbacks that are pending all belong to the mounted screen
NoOrphanGeneration ==
    \A i \in 1..Len(timers) : timers[i].kind = "generateKeys" => timers[i].alive

\* C23: in SecuritySetup exactly one key of keys is active, and its id is
\* activeKeyId, after any sequence of generations, activation requests,
\* confirmations and cancellations; a generation appends one inactive key
\* and nothing else; an activation request and a cancelled dialog leave keys
\* and activeKeyId as they are.
C23_OneActiveKey ==
    /\ [](/\ Cardinality(ActiveKeys(security)) = 1
          /\ \A k \in ActiveKeys(security) : security.keys[k].id = security.activeKeyId)
    /\ [][ /\ GenerateKeysTimer =>
               /\ security'.activeKeyId = security.activeKeyId
               /\ SubSeq(security'.keys, 1, Len(security.keys)) = security.keys
               /\ Len(security'.keys) \in {Len(security.keys), Len(security.keys) + 1}
               /\ NoOrphanGeneration => Len(security'.keys) = Len(security.keys) + 1
               /\ Len(security'.keys) > Len(security.keys) =>
                     ~security'.keys[Len(security'.keys)].isActive
           /\ ((\E k \in 0..MaxKeys : handleSetKeyActive(k)) \/ cancelKeyAction) =>
               /\ security'.keys = security.keys
               /\ security'.activeKeyId = security.activeKeyId
         ]_vars

\* A generated key was requested and confirmed: it is the one active key,
\* and the default key is inactive
C23_Witness ==
    /\ Screen = "SecuritySetup"
    /\ Len(security.keys) >= 2
    /\ ~security.keys[1].isActive
    /\ security.keys[2].isActive
    /\ security.activeKeyId = security.keys[2].id
    /\ ~security.showConfirmDialog /\ security.pendingKeyAction = Null

\* C24: the Dashboard, Compose, ViewEmail, Settings and SecuritySetup screens
\* are rendered only while isLoggedIn is true.
C24_ScreensNeedLogin ==
    Screen \in {"Dashboard", "Compose", "ViewEmail", "Settings", "SecuritySetup"} =>
        app.isLoggedIn

\* C25: the value stored under localStorage["user"] does not depend on the
\* password typed into the login form: the login that completes stores what
\* the same login with any other accepted password would have stored.
C25_StoredUserIgnoresPassword ==
    [][LoginTimer =>
         \A p \in LoginPasswords \ {<<>>} :
             localStorage'.user =
                 handleLoginStorage(localStorage, LoginUser(app'.currentUser.email, p)).user]_vars

\* C26: on the Dashboard every id of selectedEmails is the id of an email of
\* filteredEmails, the list on display.
C26_SelectionIsShown ==
    Screen = "Dashboard" =>
        \A i \in 1..Len(dash.selectedEmails) :
            SeqIncludes(EmailIds(filteredEmails(dash)), dash.selectedEmails[i])

\* C27: on the Dashboard, whenever isSelectAll is true, every email of
\* filteredEmails is in selectedEmails.
C27_SelectAllMeansAll ==
    (Screen = "Dashboard" /\ dash.isSelectAll) =>
        \A i \in 1..Len(filteredEmails(dash)) :
            SeqIncludes(dash.selectedEmails, filteredEmails(dash)[i].id)

\* C28: while the open Compose is sending (isSending is true) no step starts
\* another send: the number of pending send callbacks does not grow.
C28_OneSendAtATime ==
    [][compose.isSending => Pending(timers', "send") <= Pending(timers, "send")]_vars

\* Every pending callback of kind k was scheduled by a Compose that has been
\* closed since
OnlyOrphans(k) == \A i \in 1..Len(timers) : timers[i].kind = k => ~timers[i].alive

\* C29: a send or draft-save callback scheduled by a Compose window that was
\* closed does not close a Compose window opened later: when only callbacks
\* of closed windows are pending, their running leaves showComposeModal true.
C29_OnlyOwnWindowCloses ==
    [][ /\ (SendTimer /\ OnlyOrphans("send")) =>
              (dash.showComposeModal => dash'.showComposeModal)
        /\ (DraftCloseTimer /\ OnlyOrphans("draftClose")) =>
              (dash.showComposeModal => dash'.showComposeModal)
      ]_vars

====
